---------------------------- MODULE Spec2Model ----------------------------
(***************************************************************************)
(* A model of the inline part of V8's Heap (src/heap/heap-inl.h): the      *)
(* allocation dispatcher Heap::AllocateRaw, the generational write barrier *)
(* (Heap::RecordWrite, Heap::RecordFixedArrayElements), the allocation     *)
(* memento lookup (Heap::FindAllocationMemento, Heap::UpdateAllocationSite)*)
(* and the allocation instrumentation (Heap::OnAllocationEvent).           *)
(*                                                                         *)
(* Addresses are byte addresses.  The geometry is scaled down: a Page is   *)
(* 2^kPageSizeBits = 64 bytes instead of 512 KB, so that every page        *)
(* boundary case is within reach of the model checker.  A build is either  *)
(* a DEBUG build (DCHECKs and the #ifdef DEBUG blocks are compiled in) or  *)
(* a release build (they are compiled out); the variable DEBUG says which. *)
(***************************************************************************)
EXTENDS Integers, Sequences, FiniteSets, TLC

VARIABLES
    DEBUG,                          \* the build: TRUE iff DCHECKs are compiled in
    aborted,                        \* the process has hit a fatal check
    gc_state_,                      \* Heap::gc_state_
    AllowHandleAllocation,          \* AllowHandleAllocation::IsAllowed()
    AllowHeapAllocation,            \* AllowHeapAllocation::IsAllowed()
    always_allocate_scope_count_,   \* Heap::always_allocate_scope_count_
    FLAG_gc_interval,
    allocation_timeout_,            \* Heap::allocation_timeout_ (DEBUG only)
    new_space_,                     \* [top, limit, to_space_, from_space_]
    old_space_,                     \* [top, limit]
    code_space_,                    \* [top, limit]
    map_space_,                     \* [top, limit]
    lo_space_,                      \* sequence of large pages
    page_flags,                     \* MemoryChunk flags of the regular pages
    is_tracking_allocations,        \* HeapProfiler::is_tracking_allocations()
    is_tracking_object_moves,       \* HeapProfiler::is_tracking_object_moves()
    FLAG_verify_predictable,
    FLAG_dump_allocations_digest_at_alloc,
    FLAG_trace_allocation_stack_interval,
    allocations_count_,             \* Heap::allocations_count_
    raw_allocations_hash_,          \* Heap::raw_allocations_hash_, <<high 16 bits, low 16 bits>>
    synthetic_time,                 \* requests made to MonotonicallyIncreasingTimeInMs
    allocation_events,              \* calls of OnAllocationEvent made by the last operation
    profiler_events,                \* calls made to the HeapProfiler by the last operation
    printed_digests,                \* PrintAllocationsHash outputs of the last operation
    printed_stacks,                 \* PrintStack calls of the last operation
    code_events,                    \* LOG_CODE_EVENT calls of the last operation
    hashed_events,                  \* history: the events folded into the hash so far
    store_buffer,                   \* StoreBuffer: the slot addresses recorded, oldest first
    FLAG_allocation_site_pretenuring,
    local_pretenuring_feedback,     \* a collector task's own feedback map: site -> count
    global_pretenuring_feedback_,   \* Heap::global_pretenuring_feedback_: site -> count
    memento_reads,                  \* addresses the last memento lookup read from
    external_resources,             \* the resource pointer of each external string, by address
    dispose_calls,                  \* calls of Dispose() made on each external resource
    disposed_resources,             \* Dispose() calls of the last external string operation
    new_space_strings_,             \* ExternalStringTable::new_space_strings_
    old_space_strings_,             \* ExternalStringTable::old_space_strings_
    wasm_test,                      \* the stack trace test being run, if any
    frames,                         \* the call stack, outermost frame first
    maybe_exc,                      \* the exception thrown and the stack trace it carries
    kSmiValueSize,                  \* the build: bits of a Smi's value, 31 or 32
    last_script_id,                 \* the root last_script_id, a Smi
    call,                           \* the last operation and its arguments
    result                          \* what the last operation returned

vars == <<DEBUG, aborted, gc_state_, AllowHandleAllocation, AllowHeapAllocation,
          always_allocate_scope_count_, FLAG_gc_interval, allocation_timeout_,
          new_space_, old_space_,
          code_space_, map_space_, lo_space_, page_flags, is_tracking_allocations,
          is_tracking_object_moves, FLAG_verify_predictable,
          FLAG_dump_allocations_digest_at_alloc, FLAG_trace_allocation_stack_interval,
          allocations_count_, raw_allocations_hash_, synthetic_time, allocation_events,
          profiler_events, printed_digests, printed_stacks, code_events, hashed_events,
          store_buffer,
          FLAG_allocation_site_pretenuring, local_pretenuring_feedback,
          global_pretenuring_feedback_, memento_reads, external_resources, dispose_calls,
          disposed_resources, new_space_strings_, old_space_strings_, wasm_test, frames,
          maybe_exc, kSmiValueSize, last_script_id, call, result>>

buildVars == <<DEBUG, FLAG_gc_interval, FLAG_verify_predictable,
               FLAG_dump_allocations_digest_at_alloc, FLAG_trace_allocation_stack_interval,
               kSmiValueSize>>

scopeVars == <<AllowHandleAllocation, AllowHeapAllocation, always_allocate_scope_count_>>

spaceVars == <<new_space_, old_space_, code_space_, map_space_, lo_space_, page_flags>>

profilerVars == <<is_tracking_allocations, is_tracking_object_moves>>

hashVars == <<allocations_count_, raw_allocations_hash_, synthetic_time, hashed_events>>

debugCounterVars == <<allocation_timeout_>>

barrierVars == <<store_buffer>>

mementoVars == <<FLAG_allocation_site_pretenuring, local_pretenuring_feedback,
                 global_pretenuring_feedback_, memento_reads>>

externalVars == <<external_resources, dispose_calls, disposed_resources, new_space_strings_,
                  old_space_strings_>>

stackVars == <<wasm_test, frames, maybe_exc>>

scriptVars == <<last_script_id>>

-----------------------------------------------------------------------------
(* Bounds of the model.                                                    *)

\* Allocation events explored while allocations are counted, and calls
\* explored after the DEBUG allocation timeout has run out.
MaxAllocations == 3

\* Large pages the large-object space may hold before it reports exhaustion.
MaxLargePages == 1

\* Nesting depth of AlwaysAllocateScope explored.
MaxAlwaysAllocateDepth == 1

\* Entries of the external string table explored, both lists together.
MaxExternalStrings == 3

\* Dispose() calls explored per external resource.
MaxDisposeCalls == 2

-----------------------------------------------------------------------------
(* Geometry (scaled).                                                      *)

kPointerSize == 8

kPageSizeBits == 6

kPageSize == 2 ^ kPageSizeBits

\* MemoryChunk::kObjectStartOffset: the page header precedes the object area.
kObjectStartOffset == kPointerSize

\* Objects above this size live on a large page of their own.
kMaxRegularHeapObjectSize == 5 * kPointerSize

\* A code page keeps guard regions around its area, so its area is smaller
\* than the area of a data page.
CodePageAreaStartOffset == 2 * kPointerSize

CodePageAreaSize == 4 * kPointerSize

NEW_SPACE == "NEW_SPACE"

OLD_SPACE == "OLD_SPACE"

CODE_SPACE == "CODE_SPACE"

MAP_SPACE == "MAP_SPACE"

LO_SPACE == "LO_SPACE"

\* enum AllocationSpace, in declaration order.
AllocationSpace == <<NEW_SPACE, OLD_SPACE, CODE_SPACE, MAP_SPACE, LO_SPACE>>

\* The integer value of an AllocationSpace enumerator.
SpaceId(space) == (CHOOSE i \in 1..Len(AllocationSpace) : AllocationSpace[i] = space) - 1

\* The regular pages: the two semispace pages of the new space and one page
\* for each paged space.  Address 0 is nullptr, so no page starts there.
SemiSpacePageA == 1 * kPageSize

SemiSpacePageB == 2 * kPageSize

OldSpacePage == 3 * kPageSize

CodeSpacePage == 4 * kPageSize

MapSpacePage == 5 * kPageSize

RegularPages == {SemiSpacePageA, SemiSpacePageB, OldSpacePage, CodeSpacePage, MapSpacePage}

\* Large pages are laid out after the regular pages.
FirstLargePage == 6 * kPageSize

\* Page::FromAddress: the page is found by masking the low address bits.
Page_FromAddress(addr) == (addr \div kPageSize) * kPageSize

\* Page::OnSamePage
Page_OnSamePage(a, b) == Page_FromAddress(a) = Page_FromAddress(b)

\* Number of base pages a large page with one object of the given size spans.
LargePageSpan(size) == (kObjectStartOffset + size + kPageSize - 1) \div kPageSize

\* MemoryChunk::owner()->identity() of the chunk starting at `page`; the
\* addresses from FirstLargePage on are used for large pages only.
Page_owner(page) ==
    IF page \in {SemiSpacePageA, SemiSpacePageB} THEN NEW_SPACE
    ELSE IF page = OldSpacePage THEN OLD_SPACE
    ELSE IF page = CodeSpacePage THEN CODE_SPACE
    ELSE IF page = MapSpacePage THEN MAP_SPACE
    ELSE IF page >= FirstLargePage THEN LO_SPACE
    ELSE "NO_SPACE"

\* MemoryChunk::area_start() / area_end() of a regular page.
Page_area_start(page) ==
    IF page = CodeSpacePage THEN page + CodePageAreaStartOffset ELSE page + kObjectStartOffset

Page_area_end(page) ==
    IF page = CodeSpacePage THEN page + CodePageAreaStartOffset + CodePageAreaSize
    ELSE page + kPageSize

\* MemoryChunk::Contains: area_start <= addr < area_end.
Page_Contains(page, addr) == Page_area_start(page) <= addr /\ addr < Page_area_end(page)

\* MemoryChunk::ContainsLimit: area_start <= addr <= area_end.
Page_ContainsLimit(page, addr) == Page_area_start(page) <= addr /\ addr <= Page_area_end(page)


-----------------------------------------------------------------------------
(* 32-bit unsigned arithmetic.  A uint32_t is kept as <<high, low>>, its   *)
(* two 16-bit halves, so that no intermediate value leaves the range of    *)
(* the model checker's integers.                                           *)

RECURSIVE BitXor(_, _)
BitXor(a, b) ==
    IF a = 0 THEN b
    ELSE IF b = 0 THEN a
    ELSE (((a % 2) + (b % 2)) % 2) + 2 * BitXor(a \div 2, b \div 2)

RECURSIVE BitOr(_, _)
BitOr(a, b) ==
    IF a = 0 THEN b
    ELSE IF b = 0 THEN a
    ELSE (IF a % 2 = 1 \/ b % 2 = 1 THEN 1 ELSE 0) + 2 * BitOr(a \div 2, b \div 2)

Half == 2 ^ 16

\* a + b modulo 2^32
U32Add(a, b) ==
    LET low == a[2] + b[2]
    IN  <<(a[1] + b[1] + (low \div Half)) % Half, low % Half>>

\* a << n modulo 2^32, for 0 < n < 16
U32Shl(a, n) ==
    <<((a[1] % (2 ^ (16 - n))) * (2 ^ n) + (a[2] \div (2 ^ (16 - n)))) % Half,
      (a[2] % (2 ^ (16 - n))) * (2 ^ n)>>

\* a >> n, for 0 < n < 16
U32Shr(a, n) ==
    <<a[1] \div (2 ^ n), (a[2] \div (2 ^ n)) + (a[1] % (2 ^ n)) * (2 ^ (16 - n))>>

U32Xor(a, b) == <<BitXor(a[1], b[1]), BitXor(a[2], b[2])>>

\* StringHasher::AddCharacterCore(running_hash, c):
\*   running_hash += c; running_hash += (running_hash << 10);
\*   running_hash ^= (running_hash >> 6);
StringHasher_AddCharacterCore(running_hash, c) ==
    LET h1 == U32Add(running_hash, <<0, c>>)
        h2 == U32Add(h1, U32Shl(h1, 10))
    IN  U32Xor(h2, U32Shr(h2, 6))

\* Heap::UpdateAllocationsHash(uint32_t value): the low 16 bits are folded
\* first, then the high 16 bits.  `value` is below 2^31 in this model.
UpdateAllocationsHash(hash, value) ==
    LET c1 == value % Half
        c2 == (value \div Half) % Half
    IN  StringHasher_AddCharacterCore(StringHasher_AddCharacterCore(hash, c1), c2)

\* A fold of the object's absolute address in place of its page-relative
\* offset.
UpdateAllocationsHashObject_Absolute(hash, object_address) ==
    LET memory_chunk == Page_FromAddress(object_address)
        allocation_space == SpaceId(Page_owner(memory_chunk))
        value == BitOr(object_address, allocation_space * (2 ^ kPageSizeBits))
    IN  UpdateAllocationsHash(hash, value)

\* Heap::UpdateAllocationsHash(HeapObject* object): the value folded is the
\* page-relative offset of the object or-ed with its space id shifted left
\* by kPageSizeBits.
UpdateAllocationsHashObject(hash, object_address) ==
    LET memory_chunk == Page_FromAddress(object_address)
        allocation_space == SpaceId(Page_owner(memory_chunk))
        value == BitOr(object_address - memory_chunk, allocation_space * (2 ^ kPageSizeBits))
    IN  UpdateAllocationsHash(hash, value)

-----------------------------------------------------------------------------
(* AllocationResult                                                        *)

nullptr == 0

AllocationResult_Success(object) == [kind |-> "Success", object |-> object, space |-> "NONE"]

AllocationResult_Retry(space) == [kind |-> "Retry", object |-> nullptr, space |-> space]

\* What an operation leaves behind when a fatal check ends the process.
Fatal == [kind |-> "Fatal", object |-> nullptr, space |-> "NONE"]

\* The value of `result` for operations that return nothing.
Void == [kind |-> "Void", object |-> nullptr, space |-> "NONE"]

-----------------------------------------------------------------------------
(* The spaces' own allocators.  Each returns the AllocationResult and the  *)
(* state of the space afterwards.                                          *)

\* A bump allocator that, when the request does not fit, gives up the rest
\* of the page before it reports exhaustion.
NewSpace_AllocateRaw_GivesUpPage(size_in_bytes, alignment) ==
    IF new_space_.top + size_in_bytes > new_space_.limit
    THEN [allocation |-> AllocationResult_Retry(NEW_SPACE),
          space |-> [new_space_ EXCEPT !.top = new_space_.limit]]
    ELSE [allocation |-> AllocationResult_Success(new_space_.top),
          space |-> [new_space_ EXCEPT !.top = @ + size_in_bytes]]

\* NewSpace::AllocateRaw: bump allocation between top and limit of the
\* to-space page.  On a 64-bit host the alignment argument makes no
\* difference: every object is word aligned.
NewSpace_AllocateRaw(size_in_bytes, alignment) ==
    IF new_space_.top + size_in_bytes > new_space_.limit
    THEN [allocation |-> AllocationResult_Retry(NEW_SPACE), space |-> new_space_]
    ELSE [allocation |-> AllocationResult_Success(new_space_.top),
          space |-> [new_space_ EXCEPT !.top = @ + size_in_bytes]]

\* PagedSpace::AllocateRaw / AllocateRawUnaligned on the linear allocation
\* area of the space; on exhaustion the space names itself in the Retry.
PagedSpace_AllocateRaw(paged_space, identity, size_in_bytes) ==
    IF paged_space.top + size_in_bytes > paged_space.limit
    THEN [allocation |-> AllocationResult_Retry(identity), space |-> paged_space]
    ELSE [allocation |-> AllocationResult_Success(paged_space.top),
          space |-> [paged_space EXCEPT !.top = @ + size_in_bytes]]

\* The address at which the next large page is placed.
NextLargePage ==
    IF lo_space_ = <<>> THEN FirstLargePage
    ELSE LET last == lo_space_[Len(lo_space_)]
         IN  last.address + LargePageSpan(last.size) * kPageSize

\* LargeObjectSpace::AllocateRaw(object_size, executable): a fresh large page
\* sized to the object; the object sits at the start of the page's area.
LargeObjectSpace_AllocateRaw(object_size, executable) ==
    IF Len(lo_space_) >= MaxLargePages
    THEN [allocation |-> AllocationResult_Retry(LO_SPACE), space |-> lo_space_]
    ELSE [allocation |-> AllocationResult_Success(NextLargePage + kObjectStartOffset),
          space |-> Append(lo_space_, [address |-> NextLargePage, size |-> object_size,
                                       executable |-> executable])]


-----------------------------------------------------------------------------
(* Instrumentation.                                                        *)

\* Heap::PrintAllocationsHash: a digest line with the allocation count and
\* the hash at the moment of printing.
PrintAllocationsHash(count, hash) == [allocations |-> count, hash |-> hash]

\* Whether OnAllocationEvent counts allocations in this configuration.
CountsAllocations == FLAG_verify_predictable \/ FLAG_trace_allocation_stack_interval > 0

\* An operation that does not reach an instrumentation hook emits nothing
\* and leaves the counter, the hash and the synthetic clock alone.
NoInstrumentation ==
    /\ allocation_events' = <<>>
    /\ profiler_events' = <<>>
    /\ printed_digests' = <<>>
    /\ printed_stacks' = 0
    /\ code_events' = <<>>
    /\ UNCHANGED hashVars

\* What the hash can see of an object: its page-relative offset and the id
\* of the space that owns its page.
HashedObject(object_address) ==
    [offset |-> object_address - Page_FromAddress(object_address),
     space |-> SpaceId(Page_owner(Page_FromAddress(object_address)))]

\* The history entry of an allocation event and of a move event.
HashedAllocation(object, size_in_bytes) ==
    [event |-> "allocation", objects |-> <<HashedObject(object)>>, size |-> size_in_bytes]

HashedMove(source, target, size_in_bytes) ==
    [event |-> "move", objects |-> <<HashedObject(source), HashedObject(target)>>,
     size |-> size_in_bytes]

\* A sampling block that counts the allocation whether or not it has been
\* counted already.
OnAllocationEvent_SamplingCount_Always(count) == count + 1

\* Line 303: if (!FLAG_verify_predictable) ++allocations_count_;
OnAllocationEvent_SamplingCount(count) ==
    IF ~FLAG_verify_predictable THEN count + 1 ELSE count

\* Heap::OnAllocationEvent(object, size_in_bytes)
OnAllocationEvent(object, size_in_bytes) ==
    LET count1 == IF FLAG_verify_predictable THEN allocations_count_ + 1
                  ELSE allocations_count_
        hash1 == IF FLAG_verify_predictable
                 THEN UpdateAllocationsHash(
                          UpdateAllocationsHashObject(raw_allocations_hash_, object),
                          size_in_bytes)
                 ELSE raw_allocations_hash_
        count2 == IF FLAG_trace_allocation_stack_interval > 0
                  THEN OnAllocationEvent_SamplingCount(count1)
                  ELSE count1
    IN  /\ allocation_events' = <<[object |-> object, size |-> size_in_bytes]>>
        /\ profiler_events' =
               IF is_tracking_allocations
               THEN <<[event |-> "AllocationEvent", address |-> object,
                       size |-> size_in_bytes]>>
               ELSE <<>>
        /\ allocations_count_' = count2
        /\ synthetic_time' = IF FLAG_verify_predictable THEN synthetic_time + 1
                             ELSE synthetic_time
        /\ raw_allocations_hash_' = hash1
        /\ hashed_events' =
               IF FLAG_verify_predictable
               THEN Append(hashed_events, HashedAllocation(object, size_in_bytes))
               ELSE hashed_events
        /\ printed_digests' =
               IF FLAG_verify_predictable
                  /\ count1 % FLAG_dump_allocations_digest_at_alloc = 0
               THEN <<PrintAllocationsHash(count1, hash1)>>
               ELSE <<>>
        /\ printed_stacks' =
               IF FLAG_trace_allocation_stack_interval > 0
                  /\ count2 % FLAG_trace_allocation_stack_interval = 0
               THEN 1
               ELSE 0
        /\ code_events' = <<>>

\* The folds of OnMoveEvent with target and source in each other's place.
OnMoveEvent_Hash_TargetFirst(hash, target, source, size_in_bytes) ==
    UpdateAllocationsHash(
        UpdateAllocationsHashObject(UpdateAllocationsHashObject(hash, target), source),
        size_in_bytes)

\* Lines 328-330: source, then target, then the size are folded into the
\* hash.
OnMoveEvent_Hash(hash, target, source, size_in_bytes) ==
    UpdateAllocationsHash(
        UpdateAllocationsHashObject(UpdateAllocationsHashObject(hash, source), target),
        size_in_bytes)

\* A counter that moves pass by.
OnMoveEvent_Count_AllocationsOnly(count) == count

\* Line 324: ++allocations_count_ in OnMoveEvent.
OnMoveEvent_Count(count) == count + 1

\* A profiler that is told of a move twice.
OnMoveEvent_Profiler_Twice(target, source, size_in_bytes) ==
    IF is_tracking_object_moves
    THEN <<[event |-> "ObjectMoveEvent", from |-> source, to |-> target,
            size |-> size_in_bytes],
           [event |-> "ObjectMoveEvent", from |-> source, to |-> target,
            size |-> size_in_bytes]>>
    ELSE <<>>

\* Lines 313-317: the calls OnMoveEvent makes to the HeapProfiler.
OnMoveEvent_Profiler(target, source, size_in_bytes) ==
    IF is_tracking_object_moves
    THEN <<[event |-> "ObjectMoveEvent", from |-> source, to |-> target,
            size |-> size_in_bytes]>>
    ELSE <<>>

\* Heap::OnMoveEvent(target, source, size_in_bytes); `is_shared_function_info`
\* is target->IsSharedFunctionInfo().  It emits and updates what
\* OnAllocationEvent does, except for allocation events and stack traces.
OnMoveEvent_Instrument(target, source, size_in_bytes, is_shared_function_info) ==
    LET count1 == IF FLAG_verify_predictable THEN OnMoveEvent_Count(allocations_count_)
                  ELSE allocations_count_
        hash1 == IF FLAG_verify_predictable
                 THEN OnMoveEvent_Hash(raw_allocations_hash_, target, source, size_in_bytes)
                 ELSE raw_allocations_hash_
    IN  /\ allocation_events' = <<>>
        /\ profiler_events' = OnMoveEvent_Profiler(target, source, size_in_bytes)
        /\ code_events' =
               IF is_shared_function_info
               THEN <<[event |-> "SharedFunctionInfoMoveEvent", from |-> source,
                       to |-> target]>>
               ELSE <<>>
        /\ allocations_count_' = count1
        /\ synthetic_time' = IF FLAG_verify_predictable THEN synthetic_time + 1
                             ELSE synthetic_time
        /\ raw_allocations_hash_' = hash1
        /\ hashed_events' =
               IF FLAG_verify_predictable
               THEN Append(hashed_events, HashedMove(source, target, size_in_bytes))
               ELSE hashed_events
        /\ printed_digests' =
               IF FLAG_verify_predictable
                  /\ count1 % FLAG_dump_allocations_digest_at_alloc = 0
               THEN <<PrintAllocationsHash(count1, hash1)>>
               ELSE <<>>
        /\ printed_stacks' = 0

-----------------------------------------------------------------------------
(* The allocation dispatcher.                                              *)

\* Heap::always_allocate()
always_allocate == always_allocate_scope_count_ # 0

\* The opening DCHECKs without the one on gc_state_.
AllocateRaw_Preconditions_NoGcState ==
    /\ AllowHandleAllocation
    /\ AllowHeapAllocation

\* The three DCHECKs that open AllocateRaw.
AllocateRaw_Preconditions ==
    /\ AllowHandleAllocation
    /\ AllowHeapAllocation
    /\ gc_state_ = "NOT_IN_GC"

\* AllocateRaw_Dispatch without the redirection of large young requests.
AllocateRaw_Dispatch_NoYoungRedirect(size_in_bytes, space) ==
    LET large_object == size_in_bytes > kMaxRegularHeapObjectSize
    IN  IF space = NEW_SPACE
        THEN [allocator |-> "new_space_", executable |-> FALSE, fatal |-> "none"]
        ELSE IF space = OLD_SPACE
        THEN IF large_object
             THEN [allocator |-> "lo_space_", executable |-> FALSE, fatal |-> "none"]
             ELSE [allocator |-> "old_space_", executable |-> FALSE, fatal |-> "none"]
        ELSE IF space = CODE_SPACE
        THEN IF size_in_bytes <= CodePageAreaSize
             THEN [allocator |-> "code_space_", executable |-> TRUE, fatal |-> "none"]
             ELSE [allocator |-> "lo_space_", executable |-> TRUE, fatal |-> "none"]
        ELSE IF space = LO_SPACE
        THEN IF DEBUG /\ ~large_object
             THEN [allocator |-> "none", executable |-> FALSE, fatal |-> "DCHECK"]
             ELSE [allocator |-> "lo_space_", executable |-> FALSE, fatal |-> "none"]
        ELSE IF space = MAP_SPACE
        THEN [allocator |-> "map_space_", executable |-> FALSE, fatal |-> "none"]
        ELSE [allocator |-> "none", executable |-> FALSE, fatal |-> "UNREACHABLE"]

\* AllocateRaw_Dispatch with old-generation requests always served by the
\* old space, whatever their size.
AllocateRaw_Dispatch_NoLargeOld(size_in_bytes, space) ==
    LET large_object == size_in_bytes > kMaxRegularHeapObjectSize
        space1 == IF space = NEW_SPACE /\ large_object THEN LO_SPACE ELSE space
    IN  IF space1 = NEW_SPACE
        THEN [allocator |-> "new_space_", executable |-> FALSE, fatal |-> "none"]
        ELSE IF space1 = OLD_SPACE
        THEN [allocator |-> "old_space_", executable |-> FALSE, fatal |-> "none"]
        ELSE IF space1 = CODE_SPACE
        THEN IF size_in_bytes <= CodePageAreaSize
             THEN [allocator |-> "code_space_", executable |-> TRUE, fatal |-> "none"]
             ELSE [allocator |-> "lo_space_", executable |-> TRUE, fatal |-> "none"]
        ELSE IF space1 = LO_SPACE
        THEN IF DEBUG /\ ~large_object
             THEN [allocator |-> "none", executable |-> FALSE, fatal |-> "DCHECK"]
             ELSE [allocator |-> "lo_space_", executable |-> FALSE, fatal |-> "none"]
        ELSE IF space1 = MAP_SPACE
        THEN [allocator |-> "map_space_", executable |-> FALSE, fatal |-> "none"]
        ELSE [allocator |-> "none", executable |-> FALSE, fatal |-> "UNREACHABLE"]

\* AllocateRaw_Dispatch with the final else branch serving the request from
\* the old space instead of reaching UNREACHABLE().
AllocateRaw_Dispatch_NoUnreachable(size_in_bytes, space) ==
    LET large_object == size_in_bytes > kMaxRegularHeapObjectSize
        space1 == IF space = NEW_SPACE /\ large_object THEN LO_SPACE ELSE space
    IN  IF space1 = NEW_SPACE
        THEN [allocator |-> "new_space_", executable |-> FALSE, fatal |-> "none"]
        ELSE IF space1 = OLD_SPACE
        THEN IF large_object
             THEN [allocator |-> "lo_space_", executable |-> FALSE, fatal |-> "none"]
             ELSE [allocator |-> "old_space_", executable |-> FALSE, fatal |-> "none"]
        ELSE IF space1 = CODE_SPACE
        THEN IF size_in_bytes <= CodePageAreaSize
             THEN [allocator |-> "code_space_", executable |-> TRUE, fatal |-> "none"]
             ELSE [allocator |-> "lo_space_", executable |-> TRUE, fatal |-> "none"]
        ELSE IF space1 = LO_SPACE
        THEN IF DEBUG /\ ~large_object
             THEN [allocator |-> "none", executable |-> FALSE, fatal |-> "DCHECK"]
             ELSE [allocator |-> "lo_space_", executable |-> FALSE, fatal |-> "none"]
        ELSE IF space1 = MAP_SPACE
        THEN [allocator |-> "map_space_", executable |-> FALSE, fatal |-> "none"]
        ELSE [allocator |-> "old_space_", executable |-> FALSE, fatal |-> "none"]

\* AllocateRaw_Dispatch with code requests routed by the large-object
\* threshold instead of the area of a code page.
AllocateRaw_Dispatch_CodeByThreshold(size_in_bytes, space) ==
    LET large_object == size_in_bytes > kMaxRegularHeapObjectSize
        space1 == IF space = NEW_SPACE /\ large_object THEN LO_SPACE ELSE space
    IN  IF space1 = NEW_SPACE
        THEN [allocator |-> "new_space_", executable |-> FALSE, fatal |-> "none"]
        ELSE IF space1 = OLD_SPACE
        THEN IF large_object
             THEN [allocator |-> "lo_space_", executable |-> FALSE, fatal |-> "none"]
             ELSE [allocator |-> "old_space_", executable |-> FALSE, fatal |-> "none"]
        ELSE IF space1 = CODE_SPACE
        THEN IF ~large_object
             THEN [allocator |-> "code_space_", executable |-> TRUE, fatal |-> "none"]
             ELSE [allocator |-> "lo_space_", executable |-> TRUE, fatal |-> "none"]
        ELSE IF space1 = LO_SPACE
        THEN IF DEBUG /\ ~large_object
             THEN [allocator |-> "none", executable |-> FALSE, fatal |-> "DCHECK"]
             ELSE [allocator |-> "lo_space_", executable |-> FALSE, fatal |-> "none"]
        ELSE IF space1 = MAP_SPACE
        THEN [allocator |-> "map_space_", executable |-> FALSE, fatal |-> "none"]
        ELSE [allocator |-> "none", executable |-> FALSE, fatal |-> "UNREACHABLE"]

\* The routing of AllocateRaw: which allocator serves a request, or which
\* fatal check the request runs into.
AllocateRaw_Dispatch(size_in_bytes, space) ==
    LET large_object == size_in_bytes > kMaxRegularHeapObjectSize
        space1 == IF space = NEW_SPACE /\ large_object THEN LO_SPACE ELSE space
    IN  IF space1 = NEW_SPACE
        THEN [allocator |-> "new_space_", executable |-> FALSE, fatal |-> "none"]
        ELSE IF space1 = OLD_SPACE
        THEN IF large_object
             THEN [allocator |-> "lo_space_", executable |-> FALSE, fatal |-> "none"]
             ELSE [allocator |-> "old_space_", executable |-> FALSE, fatal |-> "none"]
        ELSE IF space1 = CODE_SPACE
        THEN IF size_in_bytes <= CodePageAreaSize
             THEN [allocator |-> "code_space_", executable |-> TRUE, fatal |-> "none"]
             ELSE [allocator |-> "lo_space_", executable |-> TRUE, fatal |-> "none"]
        ELSE IF space1 = LO_SPACE
        THEN IF DEBUG /\ ~large_object
             THEN [allocator |-> "none", executable |-> FALSE, fatal |-> "DCHECK"]
             ELSE [allocator |-> "lo_space_", executable |-> FALSE, fatal |-> "none"]
        ELSE IF space1 = MAP_SPACE
        THEN [allocator |-> "map_space_", executable |-> FALSE, fatal |-> "none"]
        ELSE [allocator |-> "none", executable |-> FALSE, fatal |-> "UNREACHABLE"]

\* The call AllocateRaw makes on the allocator it dispatched to.
AllocateRaw_Allocate(target, size_in_bytes, alignment) ==
    IF target.allocator = "new_space_"
    THEN NewSpace_AllocateRaw(size_in_bytes, alignment)
    ELSE IF target.allocator = "old_space_"
    THEN PagedSpace_AllocateRaw(old_space_, OLD_SPACE, size_in_bytes)
    ELSE IF target.allocator = "code_space_"
    THEN PagedSpace_AllocateRaw(code_space_, CODE_SPACE, size_in_bytes)
    ELSE IF target.allocator = "map_space_"
    THEN PagedSpace_AllocateRaw(map_space_, MAP_SPACE, size_in_bytes)
    ELSE LargeObjectSpace_AllocateRaw(size_in_bytes, target.executable)

\* The counters of the model stay within MaxAllocations.
WithinAllocationBound ==
    /\ CountsAllocations => allocations_count_ < MaxAllocations
    /\ DEBUG => allocation_timeout_ > -MaxAllocations

\* The instrumentation with the hook missing on the exit shared by the
\* old-generation paths.
AllocateRaw_Instrument_YoungOnly(allocation, size_in_bytes) ==
    IF allocation.kind = "Success"
       /\ Page_owner(Page_FromAddress(allocation.object)) = NEW_SPACE
    THEN OnAllocationEvent(allocation.object, size_in_bytes)
    ELSE NoInstrumentation

\* The instrumentation AllocateRaw runs on an AllocationResult.
AllocateRaw_Instrument(allocation, size_in_bytes) ==
    IF allocation.kind = "Success"
    THEN OnAllocationEvent(allocation.object, size_in_bytes)
    ELSE NoInstrumentation

\* Heap::AllocateRaw(size_in_bytes, space, alignment).  The two StatsCounter
\* increments of the DEBUG block go to the embedder's counter table, which
\* is not part of the heap, and are left out.
AllocateRaw(size_in_bytes, space, alignment) ==
    /\ ~aborted
    /\ WithinAllocationBound
    /\ call' = [op |-> "AllocateRaw", size |-> size_in_bytes, space |-> space,
                alignment |-> alignment]
    /\ UNCHANGED <<buildVars, scriptVars, externalVars, stackVars, barrierVars, mementoVars, scopeVars, gc_state_, profilerVars, page_flags>>
    /\ IF DEBUG /\ ~AllocateRaw_Preconditions
       THEN \* a DCHECK fails
            /\ aborted' = TRUE
            /\ result' = Fatal
            /\ NoInstrumentation
            /\ UNCHANGED <<debugCounterVars, new_space_, old_space_, code_space_,
                           map_space_, lo_space_>>
       ELSE LET counts_down == DEBUG /\ FLAG_gc_interval >= 0 /\ ~always_allocate
                timed_out == counts_down /\ allocation_timeout_ <= 0
                target == AllocateRaw_Dispatch(size_in_bytes, space)
                done == AllocateRaw_Allocate(target, size_in_bytes, alignment)
            IN  /\ allocation_timeout_' =
                       IF counts_down THEN allocation_timeout_ - 1 ELSE allocation_timeout_
                /\ IF timed_out
                   THEN /\ result' = AllocationResult_Retry(space)
                        /\ aborted' = aborted
                        /\ NoInstrumentation
                        /\ UNCHANGED <<new_space_, old_space_, code_space_, map_space_,
                                       lo_space_>>
                   ELSE /\ IF target.fatal # "none"
                           THEN /\ aborted' = TRUE
                                /\ result' = Fatal
                                /\ NoInstrumentation
                                /\ UNCHANGED <<new_space_, old_space_, code_space_,
                                               map_space_, lo_space_>>
                           ELSE /\ aborted' = aborted
                                /\ new_space_' = IF target.allocator = "new_space_"
                                                 THEN done.space ELSE new_space_
                                /\ old_space_' = IF target.allocator = "old_space_"
                                                 THEN done.space ELSE old_space_
                                /\ code_space_' = IF target.allocator = "code_space_"
                                                  THEN done.space ELSE code_space_
                                /\ map_space_' = IF target.allocator = "map_space_"
                                                 THEN done.space ELSE map_space_
                                /\ lo_space_' = IF target.allocator = "lo_space_"
                                                THEN done.space ELSE lo_space_
                                /\ result' = done.allocation
                                /\ AllocateRaw_Instrument(done.allocation, size_in_bytes)


-----------------------------------------------------------------------------
(* Tagged values and the generation queries (heap-inl.h 388-410).          *)

\* An Object* is either a Smi (an immediate integer) or a pointer to a
\* HeapObject at an address.
Smi(value) == [tag |-> "Smi", value |-> value, address |-> nullptr]

HeapObjectAt(address) == [tag |-> "HeapObject", value |-> 0, address |-> address]

\* Object::IsHeapObject
IsHeapObject(object) == object.tag = "HeapObject"

\* MemoryChunk::IsFlagSet; a large page carries none of the flags modelled.
MemoryChunk_IsFlagSet(page, flag) == page \in DOMAIN page_flags /\ flag \in page_flags[page]

\* Page::InNewSpace: (flags & (IN_FROM_SPACE | IN_TO_SPACE)) != 0
Page_InNewSpace(page) ==
    MemoryChunk_IsFlagSet(page, "IN_FROM_SPACE") \/ MemoryChunk_IsFlagSet(page, "IN_TO_SPACE")

\* Heap::InFromSpace(Object*)
Heap_InFromSpace(object) ==
    /\ IsHeapObject(object)
    /\ MemoryChunk_IsFlagSet(Page_FromAddress(object.address), "IN_FROM_SPACE")

\* Heap::InToSpace(Object*)
Heap_InToSpace(object) ==
    /\ IsHeapObject(object)
    /\ MemoryChunk_IsFlagSet(Page_FromAddress(object.address), "IN_TO_SPACE")

\* Heap::InNewSpace(Object*): the value it returns.
Heap_InNewSpace(object) ==
    IsHeapObject(object) /\ Page_InNewSpace(Page_FromAddress(object.address))

\* The DCHECK inside Heap::InNewSpace(Object*) (lines 393-395).
Heap_InNewSpace_DCHECK(object) ==
    \/ ~Heap_InNewSpace(object)
    \/ gc_state_ # "NOT_IN_GC"
    \/ Heap_InToSpace(object)

-----------------------------------------------------------------------------
(* The write barrier (heap-inl.h 429-449).                                 *)

\* A buffer that takes a new entry at its front.
StoreBuffer_InsertEntry_AtFront(buffer, slot) == <<slot>> \o buffer

\* StoreBuffer::InsertEntry applied to a buffer.
StoreBuffer_InsertEntry(buffer, slot) == Append(buffer, slot)

\* RecordWrite without the test of the container's generation.
RecordWrite_Records_AnyContainer(object, value) ==
    ~(~Heap_InNewSpace(value) \/ ~IsHeapObject(object))

\* The condition of line 430, negated: TRUE iff RecordWrite goes on to
\* insert the slot.
RecordWrite_Records(object, value) ==
    ~(~Heap_InNewSpace(value) \/ ~IsHeapObject(object) \/ Heap_InNewSpace(object))

\* The DCHECKs the condition of line 430 runs through, in its evaluation
\* order: InNewSpace(object) is reached only if the first two tests fail.
RecordWrite_DCHECKs(object, value) ==
    /\ Heap_InNewSpace_DCHECK(value)
    /\ (Heap_InNewSpace(value) /\ IsHeapObject(object)) => Heap_InNewSpace_DCHECK(object)

\* Heap::RecordWrite(object, slot, value)
RecordWrite(object, slot, value) ==
    /\ ~aborted
    /\ call' = [op |-> "RecordWrite", object |-> object, slot |-> slot, value |-> value]
    /\ result' = IF DEBUG /\ ~RecordWrite_DCHECKs(object, value) THEN Fatal ELSE Void
    /\ aborted' = (DEBUG /\ ~RecordWrite_DCHECKs(object, value))
    /\ store_buffer' =
           IF DEBUG /\ ~RecordWrite_DCHECKs(object, value) THEN store_buffer
           ELSE IF RecordWrite_Records(object, value)
                THEN StoreBuffer_InsertEntry(store_buffer, slot)
                ELSE store_buffer
    /\ NoInstrumentation
    /\ UNCHANGED <<buildVars, scriptVars, externalVars, stackVars, mementoVars, scopeVars, gc_state_, debugCounterVars,
                   spaceVars, profilerVars>>

\* FixedArray::kHeaderSize: the map word and the length word.
FixedArray_kHeaderSize == 2 * kPointerSize

\* FixedArray::RawFieldOfElementAt(index), for the array at `array`.
FixedArray_RawFieldOfElementAt(array, index) ==
    array.address + FixedArray_kHeaderSize + index * kPointerSize

\* The loop of lines 444-448 from iteration i on, leaving out the offset
\* when it computes the slot.
RECURSIVE RecordFixedArrayElements_Loop_NoOffset(_, _, _, _, _, _)
RecordFixedArrayElements_Loop_NoOffset(buffer, array, elements, offset, length, i) ==
    IF i >= length THEN buffer
    ELSE RecordFixedArrayElements_Loop_NoOffset(
             IF ~Heap_InNewSpace(elements[offset + i + 1]) THEN buffer
             ELSE StoreBuffer_InsertEntry(buffer, FixedArray_RawFieldOfElementAt(array, i)),
             array, elements, offset, length, i + 1)

\* The loop of lines 444-448 from iteration i on: the store buffer it
\* leaves.  `elements` is the content of the array; array->get(k) is
\* elements[k + 1].
RECURSIVE RecordFixedArrayElements_Loop(_, _, _, _, _, _)
RecordFixedArrayElements_Loop(buffer, array, elements, offset, length, i) ==
    IF i >= length THEN buffer
    ELSE RecordFixedArrayElements_Loop(
             IF ~Heap_InNewSpace(elements[offset + i + 1]) THEN buffer
             ELSE StoreBuffer_InsertEntry(buffer,
                                          FixedArray_RawFieldOfElementAt(array, offset + i)),
             array, elements, offset, length, i + 1)

\* The DCHECKs inside the InNewSpace calls RecordFixedArrayElements makes.
RecordFixedArrayElements_DCHECKs(array, elements, offset, length) ==
    /\ Heap_InNewSpace_DCHECK(array)
    /\ ~Heap_InNewSpace(array) =>
           \A i \in 0..(length - 1) : Heap_InNewSpace_DCHECK(elements[offset + i + 1])

\* Heap::RecordFixedArrayElements(array, offset, length), on an array whose
\* elements are `elements`.
RecordFixedArrayElements(array, elements, offset, length) ==
    /\ ~aborted
    /\ call' = [op |-> "RecordFixedArrayElements", array |-> array, elements |-> elements,
                offset |-> offset, length |-> length]
    /\ result' = IF DEBUG /\ ~RecordFixedArrayElements_DCHECKs(array, elements, offset, length)
                 THEN Fatal ELSE Void
    /\ aborted' = (DEBUG /\ ~RecordFixedArrayElements_DCHECKs(array, elements, offset, length))
    /\ store_buffer' =
           IF DEBUG /\ ~RecordFixedArrayElements_DCHECKs(array, elements, offset, length)
           THEN store_buffer
           ELSE IF Heap_InNewSpace(array) THEN store_buffer
           ELSE RecordFixedArrayElements_Loop(store_buffer, array, elements, offset, length, 0)
    /\ NoInstrumentation
    /\ UNCHANGED <<buildVars, scriptVars, externalVars, stackVars, mementoVars, scopeVars, gc_state_, debugCounterVars,
                   spaceVars, profilerVars>>

-----------------------------------------------------------------------------
(* The allocation memento lookup (heap-inl.h 460-519).                     *)

kForGC == "kForGC"

kForRuntime == "kForRuntime"

\* HeapObject::kHeaderSize: the map word.
HeapObject_kHeaderSize == kPointerSize

\* AllocationMemento::kAllocationSiteOffset: the payload follows the map word.
AllocationMemento_kAllocationSiteOffset == HeapObject_kHeaderSize

\* The AllocationSites a memento payload may refer to: a live site and a
\* zombie site, both in the old space.  Any other payload is not a site.
LiveAllocationSite == Page_area_start(OldSpacePage)

ZombieAllocationSite == Page_area_start(OldSpacePage) + 3 * kPointerSize

\* AllocationMemento::IsValid, from the payload word of the memento.
AllocationMemento_IsValid(allocation_site) == allocation_site = LiveAllocationSite

\* The result of a lookup: the memento found (or nullptr), the addresses
\* read on the way, and whether the DCHECK of lines 508-510 held.
MementoLookup(memento, reads, dcheck) ==
    [memento |-> memento, reads |-> reads, dcheck |-> dcheck]

\* The page test of line 466, made on the first memento word only.
FindAllocationMemento_OnSamePage_FirstWord(object_address, memento_address) ==
    Page_OnSamePage(object_address, memento_address)

\* Lines 464-466: the last memento word is on the object's page.
FindAllocationMemento_OnSamePage(object_address, memento_address) ==
    Page_OnSamePage(object_address, memento_address + kPointerSize)

\* The age-mark test without the exact check of line 489.
FindAllocationMemento_BelowAgeMark_PageOnly(object_address, age_mark) ==
    ~Page_Contains(Page_FromAddress(object_address), age_mark)

\* Lines 485-491, for a page flagged NEW_SPACE_BELOW_AGE_MARK: TRUE iff the
\* lookup bails out.
FindAllocationMemento_BelowAgeMark(object_address, age_mark) ==
    IF ~Page_Contains(Page_FromAddress(object_address), age_mark) THEN TRUE
    ELSE object_address < age_mark

\* The kForRuntime case without the comparison with the allocation top.
FindAllocationMemento_ForRuntime_NoTop(memento_address, allocation_site, top) ==
    IF AllocationMemento_IsValid(allocation_site)
    THEN MementoLookup(memento_address,
                       {memento_address + AllocationMemento_kAllocationSiteOffset}, TRUE)
    ELSE MementoLookup(nullptr,
                       {memento_address + AllocationMemento_kAllocationSiteOffset}, TRUE)

\* Lines 502-514, the kForRuntime case: IsValid reads the payload, and only
\* if memento_address != top.
FindAllocationMemento_ForRuntime(memento_address, allocation_site, top) ==
    LET dcheck == \/ memento_address = top
                  \/ memento_address + HeapObject_kHeaderSize <= top
                  \/ ~Page_OnSamePage(memento_address, top - 1)
    IN  IF memento_address = top THEN MementoLookup(nullptr, {}, dcheck)
        ELSE IF AllocationMemento_IsValid(allocation_site)
             THEN MementoLookup(memento_address,
                                {memento_address + AllocationMemento_kAllocationSiteOffset},
                                dcheck)
             ELSE MementoLookup(nullptr,
                                {memento_address + AllocationMemento_kAllocationSiteOffset},
                                dcheck)

\* Heap::FindAllocationMemento<mode>(map, object) as a function of what it
\* looks at: the two words at the candidate address (`memory`), the
\* NEW_SPACE_BELOW_AGE_MARK flag of the object's page, the age mark of the
\* page's owner and the allocation top of the new space.
FindAllocationMemento_Result(mode, map, object_address, memory, below_age_mark, age_mark, top) ==
    LET memento_address == object_address + map.instance_size
    IN  IF ~FindAllocationMemento_OnSamePage(object_address, memento_address)
        THEN MementoLookup(nullptr, {}, TRUE)
        ELSE IF memory.map # "allocation_memento_map"
        THEN MementoLookup(nullptr, {memento_address}, TRUE)
        ELSE IF below_age_mark /\ FindAllocationMemento_BelowAgeMark(object_address, age_mark)
        THEN MementoLookup(nullptr, {memento_address}, TRUE)
        ELSE IF mode = kForGC
        THEN MementoLookup(memento_address, {memento_address}, TRUE)
        ELSE LET checked == FindAllocationMemento_ForRuntime(memento_address,
                                                             memory.allocation_site, top)
             IN  MementoLookup(checked.memento, {memento_address} \cup checked.reads,
                               checked.dcheck)

\* reinterpret_cast<SemiSpace*>(page->owner())->age_mark()
Page_age_mark(page) ==
    IF MemoryChunk_IsFlagSet(page, "IN_TO_SPACE") THEN new_space_.to_space_.age_mark_
    ELSE new_space_.from_space_.age_mark_

\* The lookup on the current heap.
FindAllocationMemento_OnHeap(mode, map, object_address, memory) ==
    FindAllocationMemento_Result(
        mode, map, object_address, memory,
        MemoryChunk_IsFlagSet(Page_FromAddress(object_address), "NEW_SPACE_BELOW_AGE_MARK"),
        Page_age_mark(Page_FromAddress(object_address)),
        new_space_.top)

\* The value of `result` for a lookup that returned `memento`.
MementoResult(memento) == [kind |-> "Memento", object |-> memento, space |-> "NONE"]

\* Heap::FindAllocationMemento<mode>(map, object), where `memory` holds the
\* words at the candidate address.
FindAllocationMemento(mode, map, object_address, memory) ==
    /\ ~aborted
    /\ call' = [op |-> "FindAllocationMemento", mode |-> mode, map |-> map,
                object |-> object_address, memory |-> memory]
    /\ LET found == FindAllocationMemento_OnHeap(mode, map, object_address, memory)
       IN  /\ memento_reads' = found.reads
           /\ aborted' = (DEBUG /\ ~found.dcheck)
           /\ result' = IF DEBUG /\ ~found.dcheck THEN Fatal ELSE MementoResult(found.memento)
    /\ NoInstrumentation
    /\ UNCHANGED <<buildVars, scriptVars, externalVars, stackVars, barrierVars, FLAG_allocation_site_pretenuring,
                   local_pretenuring_feedback, global_pretenuring_feedback_, scopeVars,
                   gc_state_, debugCounterVars, spaceVars, profilerVars>>

-----------------------------------------------------------------------------
(* The promotion test (heap-inl.h 422-427).                                *)

\* NewSpace::age_mark(): the age mark of one of the two semispaces.  Which
\* one is not decided by heap-inl.h, so `semispace` names it.
NewSpace_age_mark(semispace) ==
    IF semispace = "to_space_" THEN new_space_.to_space_.age_mark_
    ELSE new_space_.from_space_.age_mark_

\* A promotion test that also promotes the object at the age mark.
Heap_ShouldBePromoted_AtOrBelow(old_address, age_mark) ==
    /\ MemoryChunk_IsFlagSet(Page_FromAddress(old_address), "NEW_SPACE_BELOW_AGE_MARK")
    /\ (~Page_ContainsLimit(Page_FromAddress(old_address), age_mark)
        \/ old_address <= age_mark)

\* Lines 423-426, with `age_mark` the value of new_space_->age_mark().
Heap_ShouldBePromoted(old_address, age_mark) ==
    /\ MemoryChunk_IsFlagSet(Page_FromAddress(old_address), "NEW_SPACE_BELOW_AGE_MARK")
    /\ (~Page_ContainsLimit(Page_FromAddress(old_address), age_mark)
        \/ old_address < age_mark)

\* The value of `result` for an operation that returns a bool.
BoolResult(value) ==
    [kind |-> IF value THEN "true" ELSE "false", object |-> nullptr, space |-> "NONE"]

\* Heap::ShouldBePromoted(old_address)
ShouldBePromoted(old_address, semispace) ==
    /\ ~aborted
    /\ call' = [op |-> "ShouldBePromoted", old_address |-> old_address,
                age_mark |-> NewSpace_age_mark(semispace)]
    /\ result' = BoolResult(Heap_ShouldBePromoted(old_address, NewSpace_age_mark(semispace)))
    /\ NoInstrumentation
    /\ UNCHANGED <<buildVars, scriptVars, externalVars, stackVars, barrierVars, mementoVars, aborted,
                   scopeVars, gc_state_, debugCounterVars, spaceVars, profilerVars>>

-----------------------------------------------------------------------------
(* Script ids (heap-inl.h 576-585).                                        *)

\* Smi::kMaxValue: 2^30 - 1 with 31-bit Smis, 2^31 - 1 with 32-bit Smis.
Smi_kMaxValue == IF kSmiValueSize = 31 THEN 1073741823 ELSE 2147483647

\* Smi::FromInt(value), of an int: the value is kept in kSmiValueSize bits,
\* so an int outside the Smi range comes back as another number.
Smi_FromInt(value) ==
    Smi(IF kSmiValueSize = 31 /\ value > 1073741823 THEN (value - 2147483647) - 1
        ELSE IF kSmiValueSize = 31 /\ value < -1073741824 THEN (value + 2147483647) + 1
        ELSE value)

\* Smi::value()
Smi_value(smi) == smi.value

\* An id sequence that restarts at 0.
NextScriptId_Value_WrapToZero(last_id) ==
    IF last_id = Smi_kMaxValue THEN 0 ELSE last_id + 1

\* Lines 578-583: the value of last_id after the if.  last_id++ is an int
\* increment; it is taken only below Smi::kMaxValue, so it cannot overflow
\* an int for a stored id that is a Smi.
NextScriptId_Value(last_id) ==
    IF last_id = Smi_kMaxValue THEN 1 ELSE last_id + 1

\* The value of `result` for an operation that returns an int.
IntResult(value) == [kind |-> "int", value |-> value]

\* Heap::NextScriptId()
NextScriptId ==
    /\ ~aborted
    /\ call' = [op |-> "NextScriptId", last_id |-> Smi_value(last_script_id)]
    /\ last_script_id' = Smi_FromInt(NextScriptId_Value(Smi_value(last_script_id)))
    /\ result' = IntResult(NextScriptId_Value(Smi_value(last_script_id)))
    /\ NoInstrumentation
    /\ UNCHANGED <<buildVars, externalVars, stackVars, barrierVars, mementoVars, aborted,
                   scopeVars, gc_state_, debugCounterVars, spaceVars, profilerVars>>

-----------------------------------------------------------------------------
(* The pretenuring feedback (heap-inl.h 521-543).                          *)

\* The instance types AllocationSite::CanTrack accepts.
TrackedInstanceTypes == {"JS_ARRAY_TYPE", "JS_OBJECT_TYPE"}

\* AllocationSite::CanTrack
AllocationSite_CanTrack(instance_type) == instance_type \in TrackedInstanceTypes

\* An increment that forgets the other entries of the map.
PretenuringFeedbackMap_Increment_Alone(feedback, key) ==
    key :> ((IF key \in DOMAIN feedback THEN feedback[key] ELSE 0) + 1)

\* (*pretenuring_feedback)[key]++ on an unordered_map: a missing key is
\* inserted with the value 0 first.
PretenuringFeedbackMap_Increment(feedback, key) ==
    IF key \in DOMAIN feedback THEN [feedback EXCEPT ![key] = @ + 1]
    ELSE feedback @@ (key :> 1)

\* The DCHECK of lines 524-530 and the DCHECK inside the InNewSpace call it
\* makes: the object is where the collector evacuates objects from.
UpdateAllocationSite_DCHECK_Object(object) ==
    IF Heap_InFromSpace(object) THEN TRUE
    ELSE IF /\ Heap_InToSpace(object)
            /\ MemoryChunk_IsFlagSet(Page_FromAddress(object.address),
                                     "PAGE_NEW_NEW_PROMOTION")
         THEN TRUE
         ELSE /\ Heap_InNewSpace_DCHECK(object)
              /\ ~Heap_InNewSpace(object)
              /\ MemoryChunk_IsFlagSet(Page_FromAddress(object.address),
                                       "PAGE_NEW_OLD_PROMOTION")

\* Heap::UpdateAllocationSite(map, object, pretenuring_feedback), where
\* pretenuring_feedback points to the caller's own map ("local") or to
\* global_pretenuring_feedback_ ("global").
UpdateAllocationSite(map, object_address, memory, pretenuring_feedback) ==
    /\ ~aborted
    /\ call' = [op |-> "UpdateAllocationSite", map |-> map, object |-> object_address,
                memory |-> memory, pretenuring_feedback |-> pretenuring_feedback]
    /\ LET dchecks == /\ pretenuring_feedback # "global"
                      /\ UpdateAllocationSite_DCHECK_Object(HeapObjectAt(object_address))
           tracks == /\ FLAG_allocation_site_pretenuring
                     /\ AllocationSite_CanTrack(map.instance_type)
           found == FindAllocationMemento_OnHeap(kForGC, map, object_address, memory)
           key == memory.allocation_site
           counts == ~(DEBUG /\ ~dchecks) /\ tracks /\ found.memento # nullptr
       IN  /\ aborted' = (DEBUG /\ ~dchecks)
           /\ result' = IF DEBUG /\ ~dchecks THEN Fatal ELSE Void
           /\ memento_reads' =
                  IF (DEBUG /\ ~dchecks) \/ ~tracks THEN {}
                  ELSE IF found.memento = nullptr THEN found.reads
                  ELSE found.reads \cup
                       {found.memento + AllocationMemento_kAllocationSiteOffset}
           /\ local_pretenuring_feedback' =
                  IF counts /\ pretenuring_feedback = "local"
                  THEN PretenuringFeedbackMap_Increment(local_pretenuring_feedback, key)
                  ELSE local_pretenuring_feedback
           /\ global_pretenuring_feedback_' =
                  IF counts /\ pretenuring_feedback = "global"
                  THEN PretenuringFeedbackMap_Increment(global_pretenuring_feedback_, key)
                  ELSE global_pretenuring_feedback_
    /\ NoInstrumentation
    /\ UNCHANGED <<buildVars, scriptVars, externalVars, stackVars, barrierVars, FLAG_allocation_site_pretenuring, scopeVars,
                   gc_state_, debugCounterVars, spaceVars, profilerVars>>

-----------------------------------------------------------------------------
(* The instrumentation hooks called on their own.                          *)

\* The events explored while the hooks count them.
WithinHookBound == CountsAllocations => allocations_count_ < MaxAllocations

\* Heap::OnAllocationEvent(object, size_in_bytes), called by an allocator
\* outside AllocateRaw.
Heap_OnAllocationEvent(object, size_in_bytes) ==
    /\ ~aborted
    /\ WithinHookBound
    /\ call' = [op |-> "OnAllocationEvent", object |-> object, size |-> size_in_bytes]
    /\ result' = Void
    /\ OnAllocationEvent(object, size_in_bytes)
    /\ UNCHANGED <<buildVars, scriptVars, externalVars, stackVars, barrierVars, mementoVars, aborted, scopeVars, gc_state_,
                   debugCounterVars, spaceVars, profilerVars>>

\* Heap::OnMoveEvent(target, source, size_in_bytes)
OnMoveEvent(target, source, size_in_bytes, is_shared_function_info) ==
    /\ ~aborted
    /\ WithinHookBound
    /\ call' = [op |-> "OnMoveEvent", target |-> target, source |-> source,
                size |-> size_in_bytes,
                is_shared_function_info |-> is_shared_function_info]
    /\ result' = Void
    /\ OnMoveEvent_Instrument(target, source, size_in_bytes, is_shared_function_info)
    /\ UNCHANGED <<buildVars, scriptVars, externalVars, stackVars, barrierVars, mementoVars, aborted, scopeVars, gc_state_,
                   debugCounterVars, spaceVars, profilerVars>>

-----------------------------------------------------------------------------
(* External strings (heap-inl.h 363-380, 556-563).                         *)

\* String::IsExternalString: the external strings are the objects that
\* carry a resource pointer at ExternalString::kResourceOffset.
IsExternalString(string) == IsHeapObject(string) /\ string.address \in DOMAIN external_resources

\* An AddString that takes every string for an old one.
ExternalStringTable_AddString_AlwaysOld(string) ==
    [new_space_strings_ |-> new_space_strings_,
     old_space_strings_ |-> Append(old_space_strings_, string)]

\* Heap::ExternalStringTable::AddString(string): the two lists afterwards.
ExternalStringTable_AddString(string) ==
    IF Heap_InNewSpace(string)
    THEN [new_space_strings_ |-> Append(new_space_strings_, string),
          old_space_strings_ |-> old_space_strings_]
    ELSE [new_space_strings_ |-> new_space_strings_,
          old_space_strings_ |-> Append(old_space_strings_, string)]

\* The DCHECKs AddString runs through: its own and the one inside
\* Heap::InNewSpace.
ExternalStringTable_AddString_DCHECKs(string) ==
    /\ IsExternalString(string)
    /\ Heap_InNewSpace_DCHECK(string)

\* Heap::RegisterExternalString(string)
RegisterExternalString(string) ==
    /\ ~aborted
    /\ Len(new_space_strings_) + Len(old_space_strings_) < MaxExternalStrings
    /\ call' = [op |-> "RegisterExternalString", string |-> string]
    /\ result' = IF DEBUG /\ ~ExternalStringTable_AddString_DCHECKs(string) THEN Fatal ELSE Void
    /\ aborted' = (DEBUG /\ ~ExternalStringTable_AddString_DCHECKs(string))
    /\ new_space_strings_' =
           IF DEBUG /\ ~ExternalStringTable_AddString_DCHECKs(string) THEN new_space_strings_
           ELSE ExternalStringTable_AddString(string).new_space_strings_
    /\ old_space_strings_' =
           IF DEBUG /\ ~ExternalStringTable_AddString_DCHECKs(string) THEN old_space_strings_
           ELSE ExternalStringTable_AddString(string).old_space_strings_
    /\ disposed_resources' = <<>>
    /\ NoInstrumentation
    /\ UNCHANGED <<buildVars, scriptVars, stackVars, barrierVars, mementoVars, scopeVars, gc_state_,
                   debugCounterVars, spaceVars, profilerVars, external_resources, dispose_calls>>

\* A finalizer that leaves the resource pointer in place.
FinalizeExternalString_Pointer_Kept(resources, string) == resources

\* Line 378: *resource_addr = NULL.
FinalizeExternalString_Pointer(resources, string) ==
    [resources EXCEPT ![string.address] = nullptr]

\* Heap::FinalizeExternalString(string)
FinalizeExternalString(string) ==
    /\ ~aborted
    /\ \A resource \in DOMAIN dispose_calls : dispose_calls[resource] < MaxDisposeCalls
    /\ call' = [op |-> "FinalizeExternalString", string |-> string]
    /\ result' = IF DEBUG /\ ~IsExternalString(string) THEN Fatal ELSE Void
    /\ aborted' = (DEBUG /\ ~IsExternalString(string))
    /\ IF DEBUG /\ ~IsExternalString(string)
       THEN /\ disposed_resources' = <<>>
            /\ UNCHANGED <<external_resources, dispose_calls>>
       ELSE IF external_resources[string.address] # nullptr
            THEN /\ disposed_resources' = <<external_resources[string.address]>>
                 /\ dispose_calls' =
                        [dispose_calls EXCEPT ![external_resources[string.address]] = @ + 1]
                 /\ external_resources' =
                        FinalizeExternalString_Pointer(external_resources, string)
            ELSE /\ disposed_resources' = <<>>
                 /\ UNCHANGED <<external_resources, dispose_calls>>
    /\ NoInstrumentation
    /\ UNCHANGED <<buildVars, scriptVars, stackVars, barrierVars, mementoVars, scopeVars, gc_state_,
                   debugCounterVars, spaceVars, profilerVars, new_space_strings_, old_space_strings_>>

-----------------------------------------------------------------------------
(* The wasm stack trace tests (test/cctest/wasm/test-wasm-stack.cc).       *)
(* The tests build a small wasm module, call into it from JS through a     *)
(* wrapper and inspect the stack trace of the exception that comes out.    *)

\* The opcodes of the instructions the tests emit.
kExprUnreachable == 0

kExprNop == 1

kExprCallFunction == 16

\* The length of the locals declaration that precedes the code of a
\* function body.
kMainLocalsLength == 1

\* The frame limit the tests pass to
\* SetCaptureStackTraceForUncaughtExceptions.
kFrameLimit == 10

NoWasmTest == [test |-> "none", pos_shift |-> 0, js_first |-> FALSE]

NoException == [thrown |-> FALSE, stack |-> <<>>]

\* int unreachable_pos = 1 << (8 * pos_shift)
unreachable_pos(test) == 2 ^ (8 * test.pos_shift)

\* The function indices the module builder hands out, in the order the
\* functions are added; `js_first` tells whether the imported JS function
\* is numbered before the main function.
js_throwing_index(test) == IF test.js_first THEN 0 ELSE 1

wasm_index_1(test) ==
    IF test.test = "ExplicitThrowFromJs" THEN (IF test.js_first THEN 1 ELSE 0) ELSE 0

wasm_index_2(test) == IF test.test = "ExplicitThrowFromJs" THEN 2 ELSE 1

IsJsImport(test, func_index) ==
    test.test = "ExplicitThrowFromJs" /\ func_index = js_throwing_index(test)

WasmFunctionName(test, func_index) ==
    IF func_index = wasm_index_1(test) THEN "main"
    ELSE IF func_index = wasm_index_2(test) THEN "call_main"
    ELSE "js"

\* The function bodies with the main function of the first test built
\* without its leading nop.
WasmFunctionBody_NoNop(test, func_index) ==
    IF func_index = wasm_index_2(test)
    THEN [i \in 0..2 |->
             IF i = 0 THEN 0
             ELSE IF i = 1 THEN kExprCallFunction
             ELSE IF test.test = "ExplicitThrowFromJs" THEN wasm_index_1(test) ELSE 0]
    ELSE IF test.test = "ExplicitThrowFromJs"
         THEN [i \in 0..2 |->
                  IF i = 0 THEN 0
                  ELSE IF i = 1 THEN kExprCallFunction
                  ELSE js_throwing_index(test)]
         ELSE [i \in 0..(unreachable_pos(test) + kMainLocalsLength) |->
                  IF i = 0 THEN 0
                  ELSE IF i = unreachable_pos(test) + kMainLocalsLength THEN kExprUnreachable
                  ELSE kExprNop]

\* The bytes of a function body, from byte offset 0: the locals declaration
\* (no locals), then the code the test builds.
\*   call_main: WASM_CALL_FUNCTION0(wasm_index_1), or of function 0
\*   main of ExplicitThrowFromJs: WASM_NOP, WASM_CALL_FUNCTION0(js_throwing_index)
\*   main of WasmError: unreachable_pos nops, then kExprUnreachable
WasmFunctionBody(test, func_index) ==
    IF func_index = wasm_index_2(test)
    THEN [i \in 0..2 |->
             IF i = 0 THEN 0
             ELSE IF i = 1 THEN kExprCallFunction
             ELSE IF test.test = "ExplicitThrowFromJs" THEN wasm_index_1(test) ELSE 0]
    ELSE IF test.test = "ExplicitThrowFromJs"
         THEN [i \in 0..3 |->
                  IF i = 0 THEN 0
                  ELSE IF i = 1 THEN kExprNop
                  ELSE IF i = 2 THEN kExprCallFunction
                  ELSE js_throwing_index(test)]
         ELSE [i \in 0..(unreachable_pos(test) + kMainLocalsLength) |->
                  IF i = 0 THEN 0
                  ELSE IF i = unreachable_pos(test) + kMainLocalsLength THEN kExprUnreachable
                  ELSE kExprNop]

\* The JS functions of the tests: what each does and the line and column
\* (1-based) of that expression in its source text.
\*   "(function js() {\n function a() {\n throw new Error(); };\n a(); })"
\*   "(function callFn(fn) { fn(); })"
JsFunctionBody(name) ==
    IF name = "callFn" THEN [op |-> "call", callee |-> "fn", line |-> 1, column |-> 24]
    ELSE IF name = "js" THEN [op |-> "call", callee |-> "a", line |-> 4, column |-> 2]
    ELSE [op |-> "throw", callee |-> "", line |-> 3, column |-> 8]

\* A frame of the call stack.  `pc` is the byte offset of the current
\* instruction in the body of a wasm function; the other frames do not use
\* it.
StackFrame(kind, name, func_index, pc) ==
    [kind |-> kind, name |-> name, func_index |-> func_index, pc |-> pc]

JsFrame(name) == StackFrame("JS", name, 0, 0)

WasmFrame(test, func_index) ==
    StackFrame("WASM", WasmFunctionName(test, func_index), func_index, kMainLocalsLength)

\* The frames of functions, as opposed to the wrappers between JS and wasm.
IsFunctionFrame(frame) == frame.kind \in {"JS", "WASM"}

\* What a stack trace reports of a frame: the function name and a 1-based
\* line and column.  For a wasm frame the line is the function index plus
\* one and the column the byte offset plus one.
StackFrameInfo(frame) ==
    IF frame.kind = "WASM"
    THEN [func_name |-> frame.name, line_nr |-> frame.func_index + 1, column |-> frame.pc + 1]
    ELSE [func_name |-> frame.name, line_nr |-> JsFunctionBody(frame.name).line,
          column |-> JsFunctionBody(frame.name).column]

InnermostFirst(stack) == [i \in 1..Len(stack) |-> stack[Len(stack) + 1 - i]]

\* The stack trace captured for an exception: the function frames,
\* innermost first, at most `frame_limit` of them.
CaptureStackTrace(stack, frame_limit) ==
    LET functions == SelectSeq(InnermostFirst(stack), IsFunctionFrame)
        count == IF Len(functions) < frame_limit THEN Len(functions) ELSE frame_limit
    IN  [i \in 1..count |-> StackFrameInfo(functions[i])]

\* The innermost frame, the one that is executing.
TopFrame == frames[Len(frames)]

\* What every step of the tests leaves alone.
StackStep(op) ==
    /\ ~aborted
    /\ wasm_test # NoWasmTest
    /\ call' = [op |-> op]
    /\ result' = Void
    /\ NoInstrumentation
    /\ UNCHANGED <<buildVars, scriptVars, externalVars, barrierVars, mementoVars, scopeVars, gc_state_,
                   debugCounterVars, spaceVars, profilerVars, aborted, wasm_test>>

\* Execution::TryCall(isolate, js_trampoline, global, 1, args, ...): callFn
\* is entered.
Execution_TryCall ==
    /\ StackStep("Execution::TryCall")
    /\ frames = <<>>
    /\ ~maybe_exc.thrown
    /\ frames' = <<JsFrame("callFn")>>
    /\ UNCHANGED maybe_exc

\* A JS function calls: callFn calls its argument, the wrapper of
\* call_main; js calls a.
Js_Call ==
    /\ StackStep("JS call")
    /\ frames # <<>>
    /\ ~maybe_exc.thrown
    /\ TopFrame.kind = "JS"
    /\ JsFunctionBody(TopFrame.name).op = "call"
    /\ frames' =
           IF JsFunctionBody(TopFrame.name).callee = "fn"
           THEN Append(frames, StackFrame("JS_TO_WASM", "", wasm_index_2(wasm_test), 0))
           ELSE Append(frames, JsFrame(JsFunctionBody(TopFrame.name).callee))
    /\ UNCHANGED maybe_exc

\* The wrapper made by WrapCode enters the wasm function; the wrapper of an
\* imported JS function enters the JS function.
Wrapper_Call ==
    /\ StackStep("wrapper call")
    /\ frames # <<>>
    /\ ~maybe_exc.thrown
    /\ TopFrame.kind \in {"JS_TO_WASM", "WASM_TO_JS"}
    /\ frames' =
           IF TopFrame.kind = "JS_TO_WASM"
           THEN Append(frames, WasmFrame(wasm_test, TopFrame.func_index))
           ELSE Append(frames, JsFrame(WasmFunctionName(wasm_test, TopFrame.func_index)))
    /\ UNCHANGED maybe_exc

\* kExprNop
Wasm_Nop ==
    /\ StackStep("kExprNop")
    /\ frames # <<>>
    /\ ~maybe_exc.thrown
    /\ TopFrame.kind = "WASM"
    /\ WasmFunctionBody(wasm_test, TopFrame.func_index)[TopFrame.pc] = kExprNop
    /\ frames' = [frames EXCEPT ![Len(frames)].pc = @ + 1]
    /\ UNCHANGED maybe_exc

\* kExprCallFunction with its function index as the immediate.
Wasm_CallFunction ==
    /\ StackStep("kExprCallFunction")
    /\ frames # <<>>
    /\ ~maybe_exc.thrown
    /\ TopFrame.kind = "WASM"
    /\ WasmFunctionBody(wasm_test, TopFrame.func_index)[TopFrame.pc] = kExprCallFunction
    /\ LET callee == WasmFunctionBody(wasm_test, TopFrame.func_index)[TopFrame.pc + 1]
       IN  frames' =
               IF IsJsImport(wasm_test, callee)
               THEN Append(frames, StackFrame("WASM_TO_JS", "", callee, 0))
               ELSE Append(frames, WasmFrame(wasm_test, callee))
    /\ UNCHANGED maybe_exc

\* kExprUnreachable traps: an exception is thrown with the stack trace of
\* this point.
Wasm_Unreachable ==
    /\ StackStep("kExprUnreachable")
    /\ frames # <<>>
    /\ ~maybe_exc.thrown
    /\ TopFrame.kind = "WASM"
    /\ WasmFunctionBody(wasm_test, TopFrame.func_index)[TopFrame.pc] = kExprUnreachable
    /\ maybe_exc' = [thrown |-> TRUE, stack |-> CaptureStackTrace(frames, kFrameLimit)]
    /\ UNCHANGED frames

\* throw new Error()
Js_Throw ==
    /\ StackStep("JS throw")
    /\ frames # <<>>
    /\ ~maybe_exc.thrown
    /\ TopFrame.kind = "JS"
    /\ JsFunctionBody(TopFrame.name).op = "throw"
    /\ maybe_exc' = [thrown |-> TRUE, stack |-> CaptureStackTrace(frames, kFrameLimit)]
    /\ UNCHANGED frames

\* Nothing catches the exception: every frame is left and TryCall returns
\* an empty handle, with the exception in maybe_exc.
Execution_TryCall_Return ==
    /\ StackStep("Execution::TryCall returns")
    /\ frames # <<>>
    /\ maybe_exc.thrown
    /\ frames' = <<>>
    /\ UNCHANGED maybe_exc

\* The ExceptionInfo tables of the two tests.
expected_exceptions(test) ==
    IF test.test = "ExplicitThrowFromJs"
    THEN <<[func_name |-> "a", line_nr |-> 3, column |-> 8],
           [func_name |-> "js", line_nr |-> 4, column |-> 2],
           [func_name |-> "main", line_nr |-> wasm_index_1(test) + 1, column |-> 3],
           [func_name |-> "call_main", line_nr |-> wasm_index_2(test) + 1, column |-> 2],
           [func_name |-> "callFn", line_nr |-> 1, column |-> 24]>>
    ELSE <<[func_name |-> "main", line_nr |-> wasm_index_1(test) + 1,
            column |-> unreachable_pos(test) + kMainLocalsLength + 1],
           [func_name |-> "call_main", line_nr |-> wasm_index_2(test) + 1, column |-> 2],
           [func_name |-> "callFn", line_nr |-> 1, column |-> 24]>>

\* CheckExceptionInfos: the frame count and, frame by frame, the function
\* name, the line and the column are the expected ones.
CheckExceptionInfos(stack, excInfos) ==
    /\ Len(stack) = Len(excInfos)
    /\ \A frameNr \in 1..Len(excInfos) :
           /\ stack[frameNr].func_name = excInfos[frameNr].func_name
           /\ stack[frameNr].line_nr = excInfos[frameNr].line_nr
           /\ stack[frameNr].column = excInfos[frameNr].column

-----------------------------------------------------------------------------
(* The callers' side of the dispatcher: assertion scopes and the collector.*)

\* The callers explored hold at most one of these at a time: an
\* AlwaysAllocateScope, a DisallowHeapAllocation scope, a
\* DisallowHandleAllocation scope, a collection in progress.
Quiescent ==
    /\ always_allocate_scope_count_ = 0
    /\ AllowHeapAllocation
    /\ AllowHandleAllocation
    /\ gc_state_ = "NOT_IN_GC"

\* AlwaysAllocateScope::AlwaysAllocateScope
AlwaysAllocateScope_Enter ==
    /\ ~aborted
    /\ always_allocate_scope_count_ > 0 \/ Quiescent
    /\ always_allocate_scope_count_ < MaxAlwaysAllocateDepth
    /\ always_allocate_scope_count_' = always_allocate_scope_count_ + 1
    /\ call' = [op |-> "AlwaysAllocateScope"]
    /\ result' = Void
    /\ NoInstrumentation
    /\ UNCHANGED <<buildVars, scriptVars, externalVars, stackVars, barrierVars, mementoVars, aborted, gc_state_, AllowHandleAllocation,
                   AllowHeapAllocation, debugCounterVars, spaceVars, profilerVars>>

\* AlwaysAllocateScope::~AlwaysAllocateScope
AlwaysAllocateScope_Leave ==
    /\ ~aborted
    /\ always_allocate_scope_count_ > 0
    /\ always_allocate_scope_count_' = always_allocate_scope_count_ - 1
    /\ call' = [op |-> "~AlwaysAllocateScope"]
    /\ result' = Void
    /\ NoInstrumentation
    /\ UNCHANGED <<buildVars, scriptVars, externalVars, stackVars, barrierVars, mementoVars, aborted, gc_state_, AllowHandleAllocation,
                   AllowHeapAllocation, debugCounterVars, spaceVars, profilerVars>>

\* Entering or leaving a DisallowHeapAllocation scope.
HeapAllocationScope ==
    /\ ~aborted
    /\ ~AllowHeapAllocation \/ Quiescent
    /\ AllowHeapAllocation' = ~AllowHeapAllocation
    /\ call' = [op |-> "HeapAllocationScope"]
    /\ result' = Void
    /\ NoInstrumentation
    /\ UNCHANGED <<buildVars, scriptVars, externalVars, stackVars, barrierVars, mementoVars, aborted, gc_state_, AllowHandleAllocation,
                   always_allocate_scope_count_, debugCounterVars, spaceVars, profilerVars>>

\* Entering or leaving a DisallowHandleAllocation scope.
HandleAllocationScope ==
    /\ ~aborted
    /\ ~AllowHandleAllocation \/ Quiescent
    /\ AllowHandleAllocation' = ~AllowHandleAllocation
    /\ call' = [op |-> "HandleAllocationScope"]
    /\ result' = Void
    /\ NoInstrumentation
    /\ UNCHANGED <<buildVars, scriptVars, externalVars, stackVars, barrierVars, mementoVars, aborted, gc_state_, AllowHeapAllocation,
                   always_allocate_scope_count_, debugCounterVars, spaceVars, profilerVars>>

\* The collector starts a cycle: the GC-phase flag leaves NOT_IN_GC.
GarbageCollectionPrologue ==
    /\ ~aborted
    /\ Quiescent
    /\ gc_state_' = "IN_GC"
    /\ call' = [op |-> "GarbageCollectionPrologue"]
    /\ result' = Void
    /\ NoInstrumentation
    /\ UNCHANGED <<buildVars, scriptVars, externalVars, stackVars, barrierVars, mementoVars, aborted, scopeVars, debugCounterVars, spaceVars, profilerVars>>

\* The semispaces of the new space after a flip: the old from-space becomes
\* the to-space and allocation restarts at the start of its page.
FlippedNewSpace ==
    LET to_page == new_space_.from_space_.page
    IN  [top |-> Page_area_start(to_page),
         limit |-> Page_area_end(to_page),
         to_space_ |-> [page |-> to_page, age_mark_ |-> Page_area_start(to_page)],
         from_space_ |-> [page |-> new_space_.to_space_.page,
                          age_mark_ |-> new_space_.to_space_.age_mark_]]

\* The page flags after a flip: IN_TO_SPACE and IN_FROM_SPACE change places.
FlippedFlags(flags) ==
    (flags \ {"IN_TO_SPACE", "IN_FROM_SPACE"})
        \cup (IF "IN_TO_SPACE" \in flags THEN {"IN_FROM_SPACE"} ELSE {})
        \cup (IF "IN_FROM_SPACE" \in flags THEN {"IN_TO_SPACE"} ELSE {})

\* The new space after a collection that evacuated it without changing the
\* roles of the semispaces: allocation restarts at the start of the page.
ResetNewSpace ==
    [new_space_ EXCEPT !.top = Page_area_start(new_space_.to_space_.page),
                       !.to_space_.age_mark_ = Page_area_start(new_space_.to_space_.page)]

\* The collector ends a cycle: the young generation has been evacuated, the
\* store buffer has been processed and emptied, and the DEBUG allocation
\* timeout starts over.
GarbageCollectionEpilogue ==
    /\ ~aborted
    /\ gc_state_ = "IN_GC"
    /\ gc_state_' = "NOT_IN_GC"
    /\ new_space_' = ResetNewSpace
    /\ page_flags' = page_flags
    /\ allocation_timeout_' = IF DEBUG /\ FLAG_gc_interval >= 0 THEN FLAG_gc_interval
                              ELSE allocation_timeout_
    /\ call' = [op |-> "GarbageCollectionEpilogue"]
    /\ result' = Void
    /\ NoInstrumentation
    /\ store_buffer' = <<>>
    /\ UNCHANGED <<buildVars, scriptVars, externalVars, stackVars, mementoVars, aborted, scopeVars, old_space_, code_space_, map_space_,
                   lo_space_, profilerVars>>

-----------------------------------------------------------------------------
(* The heap after Heap::SetUp.                                             *)

InitialNewSpace ==
    [top |-> Page_area_start(SemiSpacePageA),
     limit |-> Page_area_end(SemiSpacePageA),
     to_space_ |-> [page |-> SemiSpacePageA, age_mark_ |-> Page_area_start(SemiSpacePageA)],
     from_space_ |-> [page |-> SemiSpacePageB, age_mark_ |-> Page_area_start(SemiSpacePageB)]]

\* A paged space allocates from a linear allocation area handed out by its
\* free list: `area_size` bytes at the start of the page's area.
InitialPagedSpace(page, area_size) ==
    [top |-> Page_area_start(page), limit |-> Page_area_start(page) + area_size]

InitialPageFlags ==
    [p \in RegularPages |->
        IF p = SemiSpacePageA THEN {"IN_TO_SPACE"}
        ELSE IF p = SemiSpacePageB THEN {"IN_FROM_SPACE"}
        ELSE {}]

\* The heap after Heap::SetUp, leaving out the new space, the page flags and
\* the GC-phase flag.
InitHeapBesidesNewSpace ==
    /\ AllowHandleAllocation = TRUE
    /\ AllowHeapAllocation = TRUE
    /\ always_allocate_scope_count_ = 0
    /\ old_space_ = InitialPagedSpace(OldSpacePage, 3 * kPointerSize)
    /\ code_space_ = InitialPagedSpace(CodeSpacePage, CodePageAreaSize)
    /\ map_space_ = InitialPagedSpace(MapSpacePage, 3 * kPointerSize)
    /\ lo_space_ = <<>>
    /\ allocations_count_ = 0
    /\ raw_allocations_hash_ = <<0, 0>>
    /\ synthetic_time = 0
    /\ allocation_events = <<>>
    /\ profiler_events = <<>>
    /\ printed_digests = <<>>
    /\ printed_stacks = 0
    /\ code_events = <<>>
    /\ hashed_events = <<>>
    /\ store_buffer = <<>>
    /\ local_pretenuring_feedback = <<>>
    /\ global_pretenuring_feedback_ = <<>>
    /\ memento_reads = {}
    /\ disposed_resources = <<>>
    /\ new_space_strings_ = <<>>
    /\ old_space_strings_ = <<>>
    /\ call = [op |-> "SetUp"]
    /\ result = Void

\* A heap that holds no external string, in a VM that runs no wasm test.
\* No script has been given an id: the root holds Smi 0
\* (v8::UnboundScript::kNoScriptId), on a build with 31-bit Smis.
NoScripts ==
    /\ kSmiValueSize = 31
    /\ last_script_id = Smi(0)

NoExternalStrings ==
    /\ external_resources = <<>>
    /\ dispose_calls = <<>>
    /\ wasm_test = NoWasmTest
    /\ frames = <<>>
    /\ maybe_exc = NoException

InitHeap ==
    /\ aborted = FALSE
    /\ gc_state_ = "NOT_IN_GC"
    /\ new_space_ = InitialNewSpace
    /\ page_flags = InitialPageFlags
    /\ InitHeapBesidesNewSpace

-----------------------------------------------------------------------------
(* SpecAlloc: the dispatcher under every request, in both builds, with the *)
(* scopes and the collector changing around it.                            *)

\* Request sizes: small, regular but above the code page area, and large.
AllocationSizes == {3 * kPointerSize, 5 * kPointerSize, 6 * kPointerSize}

\* Every AllocationSpace, and one value that is none of them.
RequestedSpaces == {NEW_SPACE, OLD_SPACE, CODE_SPACE, MAP_SPACE, LO_SPACE, "INVALID_SPACE"}

AllocationAlignments == {"kWordAligned"}

InitAlloc ==
    /\ InitHeap
    /\ NoExternalStrings
    /\ NoScripts
    /\ DEBUG \in BOOLEAN
    /\ FLAG_gc_interval \in (IF DEBUG THEN {-1, 1} ELSE {-1})
    /\ allocation_timeout_ = IF FLAG_gc_interval >= 0 THEN FLAG_gc_interval ELSE 0
    /\ is_tracking_allocations = ~DEBUG
    /\ is_tracking_object_moves = FALSE
    /\ FLAG_verify_predictable = FALSE
    /\ FLAG_dump_allocations_digest_at_alloc = 2
    /\ FLAG_trace_allocation_stack_interval = 0
    /\ FLAG_allocation_site_pretenuring = TRUE

NextAlloc ==
    \/ \E size_in_bytes \in AllocationSizes, space \in RequestedSpaces,
          alignment \in AllocationAlignments :
           AllocateRaw(size_in_bytes, space, alignment)
    \/ AlwaysAllocateScope_Enter
    \/ AlwaysAllocateScope_Leave
    \/ HeapAllocationScope
    \/ HandleAllocationScope
    \/ GarbageCollectionPrologue
    \/ GarbageCollectionEpilogue

SpecAlloc == InitAlloc /\ [][NextAlloc]_vars


-----------------------------------------------------------------------------
(* SpecBarrier: the write barrier under stores of every kind of value into *)
(* every kind of container, outside and inside a collection.               *)

\* Store buffer entries explored between two collections.
MaxStoreBuffer == 2

\* One object on each semispace page, one in the old space and one in the
\* map space.
YoungObjectA == HeapObjectAt(Page_area_start(SemiSpacePageA))

YoungObjectB == HeapObjectAt(Page_area_start(SemiSpacePageB))

OldObject == HeapObjectAt(Page_area_start(OldSpacePage))

MapObject == HeapObjectAt(Page_area_start(MapSpacePage))

\* The values stored, and the containers they are stored into.
BarrierObjects == {Smi(1), YoungObjectA, YoungObjectB, OldObject, MapObject}

BarrierContainers == {Smi(1), YoungObjectA, YoungObjectB, OldObject}

\* Outside a collection nothing refers into from-space: the last
\* collection evacuated it.
Referable(object) == IF gc_state_ = "NOT_IN_GC" THEN ~Heap_InFromSpace(object) ELSE TRUE

\* Contents of the FixedArrays written to, among them an array whose only
\* young reference is element 3.
FixedArrayContents ==
    { <<>>,
      <<Smi(1), YoungObjectA>>,
      <<YoungObjectA, MapObject, YoungObjectB>>,
      <<OldObject, MapObject, OldObject, YoungObjectA, Smi(1)>> }

\* The field of a container a store goes to.
FieldIndexes == {2, 3}

InitBarrier ==
    /\ InitHeap
    /\ NoExternalStrings
    /\ NoScripts
    /\ DEBUG \in BOOLEAN
    /\ FLAG_gc_interval = -1
    /\ allocation_timeout_ = 0
    /\ is_tracking_allocations = FALSE
    /\ is_tracking_object_moves = FALSE
    /\ FLAG_verify_predictable = FALSE
    /\ FLAG_dump_allocations_digest_at_alloc = 0
    /\ FLAG_trace_allocation_stack_interval = 0
    /\ FLAG_allocation_site_pretenuring = TRUE

NextBarrier ==
    \/ \E object \in BarrierContainers, field \in FieldIndexes, value \in BarrierObjects :
           /\ Referable(object)
           /\ Referable(value)
           /\ RecordWrite(object, object.address + field * kPointerSize, value)
           /\ Len(store_buffer') <= MaxStoreBuffer
    \/ \E array \in {YoungObjectA, YoungObjectB, OldObject}, elements \in FixedArrayContents :
           \E offset \in 0..Len(elements) :
               \E length \in 0..(Len(elements) - offset) :
                   /\ Referable(array)
                   /\ \A i \in 1..Len(elements) : Referable(elements[i])
                   /\ RecordFixedArrayElements(array, elements, offset, length)
                   /\ Len(store_buffer') <= MaxStoreBuffer
    \/ GarbageCollectionPrologue
    \/ GarbageCollectionEpilogue

SpecBarrier == InitBarrier /\ [][NextBarrier]_vars

-----------------------------------------------------------------------------
(* SpecMemento: the memento lookup in both modes, on objects all over the  *)
(* two new-space pages, whatever follows them in memory, under every       *)
(* placement of the allocation top and the age mark.                       *)

\* Map: the instance type and the instance size are all the lookup uses.
JSArrayMap == [instance_type |-> "JS_ARRAY_TYPE", instance_size |-> 2 * kPointerSize]

JSObjectMap == [instance_type |-> "JS_OBJECT_TYPE", instance_size |-> 3 * kPointerSize]

HeapNumberMap == [instance_type |-> "HEAP_NUMBER_TYPE", instance_size |-> 2 * kPointerSize]

\* The two words found behind an object: a map word that is the memento
\* map or some other map, and a payload that is a live site, a zombie site
\* or no site at all.  Behind the allocation top the words are
\* uninitialized, so every pattern may be read there, too.
MementoWords ==
    [map : {"allocation_memento_map", "fixed_array_map"},
     allocation_site : {LiveAllocationSite, ZombieAllocationSite, nullptr}]

\* The new-space pages in the state of a heap snapshot `h`.  Both pages are
\* to-space pages of a mutator at work, or page A is a from-space page of a
\* collection in progress.
SnapshotNewSpace(h) ==
    [top |-> h.top,
     limit |-> Page_area_end(Page_FromAddress(h.top - kPointerSize)),
     to_space_ |-> [page |-> Page_FromAddress(h.top - kPointerSize),
                    age_mark_ |-> h.age_mark],
     from_space_ |-> [page |-> IF h.role = "IN_FROM_SPACE" THEN SemiSpacePageA ELSE nullptr,
                      age_mark_ |-> h.age_mark]]

SnapshotPageFlags(h) ==
    [p \in RegularPages |->
        (IF p = SemiSpacePageA THEN {h.role}
         ELSE IF p = SemiSpacePageB THEN {"IN_TO_SPACE"}
         ELSE {})
        \cup (IF p \in h.below_age_mark THEN {"NEW_SPACE_BELOW_AGE_MARK"} ELSE {})
        \cup (IF p \in h.promoted THEN {"PAGE_NEW_NEW_PROMOTION"} ELSE {})]

\* Where the allocation top may stand, given the role of page A.
SnapshotTops(role) ==
    IF role = "IN_TO_SPACE"
    THEN {SemiSpacePageA + 4 * kPointerSize, Page_area_end(SemiSpacePageA),
          SemiSpacePageB + 4 * kPointerSize}
    ELSE {Page_area_start(SemiSpacePageB), SemiSpacePageB + 4 * kPointerSize}

\* Where the age mark may stand: at the start, inside and at the end of the
\* area of page A, and inside page B.
AgeMarks ==
    {Page_area_start(SemiSpacePageA), SemiSpacePageA + 4 * kPointerSize,
     Page_area_end(SemiSpacePageA), SemiSpacePageB + 2 * kPointerSize}

MementoSnapshots ==
    {h \in [role : {"IN_TO_SPACE", "IN_FROM_SPACE"},
            top : SnapshotTops("IN_TO_SPACE") \cup SnapshotTops("IN_FROM_SPACE"),
            age_mark : AgeMarks,
            below_age_mark : SUBSET {SemiSpacePageA, SemiSpacePageB},
            promoted : {{}}] :
        h.top \in SnapshotTops(h.role)}

InitSnapshot(h) ==
    /\ aborted = FALSE
    /\ gc_state_ = IF h.role = "IN_FROM_SPACE" THEN "IN_GC" ELSE "NOT_IN_GC"
    /\ new_space_ = SnapshotNewSpace(h)
    /\ page_flags = SnapshotPageFlags(h)
    /\ InitHeapBesidesNewSpace
    /\ FLAG_gc_interval = -1
    /\ allocation_timeout_ = 0
    /\ is_tracking_allocations = FALSE
    /\ is_tracking_object_moves = FALSE
    /\ FLAG_verify_predictable = FALSE
    /\ FLAG_dump_allocations_digest_at_alloc = 0
    /\ FLAG_trace_allocation_stack_interval = 0

InitMemento ==
    /\ DEBUG \in BOOLEAN
    /\ NoExternalStrings
    /\ NoScripts
    /\ FLAG_allocation_site_pretenuring = TRUE
    /\ \E h \in MementoSnapshots : InitSnapshot(h)

\* The word-aligned addresses of the two new-space pages an object may
\* start at.
NewSpaceObjectAddresses ==
    {Page_area_start(page) + k * kPointerSize : page \in {SemiSpacePageA, SemiSpacePageB},
                                                k \in 0..5}

\* An object of the given map at the given address exists: it ends within
\* the area of its page, and in to-space it ends at or below the
\* allocation top.
Allocated(map, object_address) ==
    /\ object_address + map.instance_size <= Page_area_end(Page_FromAddress(object_address))
    /\ IF MemoryChunk_IsFlagSet(Page_FromAddress(object_address), "IN_TO_SPACE")
       THEN object_address + map.instance_size <= new_space_.top
       ELSE TRUE

NextMemento ==
    \E mode \in {kForGC, kForRuntime}, map \in {JSArrayMap, JSObjectMap},
       object_address \in NewSpaceObjectAddresses, memory \in MementoWords :
        /\ Allocated(map, object_address)
        /\ FindAllocationMemento(mode, map, object_address, memory)

SpecMemento == InitMemento /\ [][NextMemento]_vars

-----------------------------------------------------------------------------
(* SpecSite: the collector's tasks feeding pretenuring feedback, with      *)
(* pretenuring switched on and off.                                        *)

\* Feedback counted into one map while it is explored.
MaxFeedbackCount == 2

RECURSIVE PretenuringFeedbackMap_Total(_)
PretenuringFeedbackMap_Total(feedback) ==
    IF DOMAIN feedback = {} THEN 0
    ELSE LET key == CHOOSE k \in DOMAIN feedback : TRUE
         IN  feedback[key]
             + PretenuringFeedbackMap_Total([k \in DOMAIN feedback \ {key} |-> feedback[k]])

\* A collection in progress: page A is a from-space page, part of it below
\* the age mark, and page B is a to-space page, promoted within the new
\* space or not.
SiteSnapshots ==
    [role : {"IN_FROM_SPACE"},
     top : {SemiSpacePageB + 4 * kPointerSize},
     age_mark : {SemiSpacePageA + 4 * kPointerSize},
     below_age_mark : {{}, {SemiSpacePageA}},
     promoted : {{}, {SemiSpacePageB}}]

InitSite ==
    /\ DEBUG \in BOOLEAN
    /\ NoExternalStrings
    /\ NoScripts
    /\ FLAG_allocation_site_pretenuring \in BOOLEAN
    /\ \E h \in SiteSnapshots : InitSnapshot(h)

\* The objects the collector's tasks visit.
VisitedObjectAddresses ==
    {Page_area_start(SemiSpacePageA), SemiSpacePageA + 4 * kPointerSize,
     SemiSpacePageA + 5 * kPointerSize, Page_area_start(SemiSpacePageB)}

SiteWords ==
    [map : {"allocation_memento_map", "fixed_array_map"},
     allocation_site : {LiveAllocationSite, ZombieAllocationSite}]

NextSite ==
    \E map \in {JSArrayMap, JSObjectMap, HeapNumberMap},
       object_address \in VisitedObjectAddresses, memory \in SiteWords,
       pretenuring_feedback \in {"local", "global"} :
        /\ Allocated(map, object_address)
        /\ UpdateAllocationSite_DCHECK_Object(HeapObjectAt(object_address)) = TRUE
        /\ PretenuringFeedbackMap_Total(local_pretenuring_feedback) < MaxFeedbackCount
        /\ PretenuringFeedbackMap_Total(global_pretenuring_feedback_) < MaxFeedbackCount
        /\ UpdateAllocationSite(map, object_address, memory, pretenuring_feedback)

SpecSite == InitSite /\ [][NextSite]_vars

-----------------------------------------------------------------------------
(* SpecScript: script ids handed out one after the other, from stored ids  *)
(* at both ends of the Smi range, on builds with 31-bit and 32-bit Smis.   *)

\* Ids followed at each end of the Smi range: the ids up to MaxScriptIds
\* and the ids from Smi::kMaxValue - MaxScriptIds on.
MaxScriptIds == 40

\* The stored ids a run starts from.
StartScriptIds(max) == {0, 1, 2, max - MaxScriptIds, max - 2, max - 1, max}

InitScript ==
    /\ InitHeap
    /\ NoExternalStrings
    /\ DEBUG \in BOOLEAN
    /\ FLAG_gc_interval = -1
    /\ allocation_timeout_ = 0
    /\ is_tracking_allocations = FALSE
    /\ is_tracking_object_moves = FALSE
    /\ FLAG_verify_predictable = FALSE
    /\ FLAG_dump_allocations_digest_at_alloc = 0
    /\ FLAG_trace_allocation_stack_interval = 0
    /\ FLAG_allocation_site_pretenuring = TRUE
    /\ kSmiValueSize \in {31, 32}
    /\ \E last_id \in StartScriptIds(Smi_kMaxValue) : last_script_id = Smi_FromInt(last_id)

NextScript ==
    /\ IF Smi_value(last_script_id) < MaxScriptIds THEN TRUE
       ELSE Smi_value(last_script_id) >= Smi_kMaxValue - MaxScriptIds
    /\ NextScriptId

SpecScript == InitScript /\ [][NextScript]_vars

-----------------------------------------------------------------------------
(* SpecPromotion: the promotion test and the memento lookup side by side,  *)
(* with page A in from-space and page B in to-space, each semispace with   *)
(* its own age mark, during a collection and between collections.          *)

PromotionSnapshots ==
    [gc_state : {"NOT_IN_GC", "IN_GC"},
     top : {SemiSpacePageB + 4 * kPointerSize},
     to_age_mark : {Page_area_start(SemiSpacePageB), SemiSpacePageB + 2 * kPointerSize,
                    Page_area_end(SemiSpacePageB)},
     from_age_mark : {Page_area_start(SemiSpacePageA), SemiSpacePageA + 4 * kPointerSize,
                      Page_area_end(SemiSpacePageA)},
     below_age_mark : SUBSET {SemiSpacePageA, SemiSpacePageB}]

InitPromotion ==
    /\ DEBUG = FALSE
    /\ NoExternalStrings
    /\ NoScripts
    /\ FLAG_allocation_site_pretenuring = TRUE
    /\ aborted = FALSE
    /\ InitHeapBesidesNewSpace
    /\ FLAG_gc_interval = -1
    /\ allocation_timeout_ = 0
    /\ is_tracking_allocations = FALSE
    /\ is_tracking_object_moves = FALSE
    /\ FLAG_verify_predictable = FALSE
    /\ FLAG_dump_allocations_digest_at_alloc = 0
    /\ FLAG_trace_allocation_stack_interval = 0
    /\ \E h \in PromotionSnapshots :
           /\ gc_state_ = h.gc_state
           /\ new_space_ =
                  [top |-> h.top,
                   limit |-> Page_area_end(SemiSpacePageB),
                   to_space_ |-> [page |-> SemiSpacePageB, age_mark_ |-> h.to_age_mark],
                   from_space_ |-> [page |-> SemiSpacePageA, age_mark_ |-> h.from_age_mark]]
           /\ page_flags =
                  [p \in RegularPages |->
                      (IF p = SemiSpacePageA THEN {"IN_FROM_SPACE"}
                       ELSE IF p = SemiSpacePageB THEN {"IN_TO_SPACE"}
                       ELSE {})
                      \cup (IF p \in h.below_age_mark THEN {"NEW_SPACE_BELOW_AGE_MARK"}
                            ELSE {})]

NextPromotion ==
    \/ \E old_address \in NewSpaceObjectAddresses, semispace \in {"to_space_", "from_space_"} :
           /\ Referable(HeapObjectAt(old_address))
           /\ ShouldBePromoted(old_address, semispace)
    \/ \E mode \in {kForGC, kForRuntime}, map \in {JSArrayMap, JSObjectMap},
          object_address \in NewSpaceObjectAddresses, memory \in MementoWords :
           /\ Referable(HeapObjectAt(object_address))
           /\ Allocated(map, object_address)
           /\ FindAllocationMemento(mode, map, object_address, memory)

SpecPromotion == InitPromotion /\ [][NextPromotion]_vars

-----------------------------------------------------------------------------
(* SpecHooks: allocation and move events in every order, with the          *)
(* deterministic hash, the digest, the stack sampling and the profiler      *)
(* switched on and off.                                                     *)

\* The objects allocation events are reported for: the same offset on two
\* pages of the new space, and an object of the old space.
HookAllocations ==
    { [object |-> Page_area_start(SemiSpacePageA), size |-> 2 * kPointerSize],
      [object |-> Page_area_start(SemiSpacePageB), size |-> 2 * kPointerSize],
      [object |-> Page_area_start(OldSpacePage), size |-> 3 * kPointerSize] }

\* The moves reported: a copy within the new space, in either direction,
\* and a promotion into the old space.
HookMoves ==
    { [source |-> Page_area_start(SemiSpacePageB) + 2 * kPointerSize,
       target |-> Page_area_start(SemiSpacePageA), size |-> 2 * kPointerSize],
      [source |-> Page_area_start(SemiSpacePageA) + 2 * kPointerSize,
       target |-> Page_area_start(SemiSpacePageB), size |-> 2 * kPointerSize],
      [source |-> Page_area_start(SemiSpacePageB),
       target |-> Page_area_start(OldSpacePage) + 3 * kPointerSize,
       size |-> 2 * kPointerSize] }

\* The digest intervals explored.
DigestIntervals == {2, 3}

\* The stack sampling intervals explored; 0 switches sampling off.
StackIntervals == {0, 2}

InitHooks ==
    /\ InitHeap
    /\ NoExternalStrings
    /\ NoScripts
    /\ DEBUG = FALSE
    /\ FLAG_gc_interval = -1
    /\ allocation_timeout_ = 0
    /\ is_tracking_allocations \in BOOLEAN
    /\ is_tracking_object_moves \in BOOLEAN
    /\ FLAG_verify_predictable \in BOOLEAN
    /\ FLAG_dump_allocations_digest_at_alloc \in DigestIntervals
    /\ FLAG_trace_allocation_stack_interval \in StackIntervals
    /\ FLAG_allocation_site_pretenuring = TRUE

NextHooks ==
    \/ \E allocation \in HookAllocations :
           Heap_OnAllocationEvent(allocation.object, allocation.size)
    \/ \E move \in HookMoves, is_shared_function_info \in BOOLEAN :
           OnMoveEvent(move.target, move.source, move.size, is_shared_function_info)

SpecHooks == InitHooks /\ [][NextHooks]_vars

-----------------------------------------------------------------------------
(* SpecExternal: external strings being registered and finalized, in both  *)
(* builds, outside and during a collection.                                *)

\* The external strings of the heap: one in each semispace and one in the
\* old space.
ExternalStringA == HeapObjectAt(Page_area_start(SemiSpacePageA))

ExternalStringB == HeapObjectAt(Page_area_start(SemiSpacePageB))

ExternalStringOld == HeapObjectAt(Page_area_start(OldSpacePage))

ExternalStrings == {ExternalStringA, ExternalStringB, ExternalStringOld}

\* The v8::String::ExternalStringResourceBase each string is created with,
\* as a pointer outside the heap's pages.
ExternalResourceOf(string) == 2 * FirstLargePage + string.address

InitExternal ==
    /\ aborted = FALSE
    /\ NoScripts
    /\ gc_state_ \in {"NOT_IN_GC", "IN_GC"}
    /\ new_space_ = InitialNewSpace
    /\ page_flags = InitialPageFlags
    /\ InitHeapBesidesNewSpace
    /\ DEBUG \in BOOLEAN
    /\ FLAG_gc_interval = -1
    /\ allocation_timeout_ = 0
    /\ is_tracking_allocations = FALSE
    /\ is_tracking_object_moves = FALSE
    /\ FLAG_verify_predictable = FALSE
    /\ FLAG_dump_allocations_digest_at_alloc = 0
    /\ FLAG_trace_allocation_stack_interval = 0
    /\ FLAG_allocation_site_pretenuring = TRUE
    /\ external_resources =
           [address \in {string.address : string \in ExternalStrings} |->
               ExternalResourceOf(HeapObjectAt(address))]
    /\ dispose_calls = [resource \in {ExternalResourceOf(string) : string \in ExternalStrings} |-> 0]
    /\ wasm_test = NoWasmTest
    /\ frames = <<>>
    /\ maybe_exc = NoException

NextExternal ==
    \/ \E string \in ExternalStrings :
           /\ Referable(string)
           /\ RegisterExternalString(string)
    \/ \E string \in ExternalStrings :
           /\ Referable(string)
           /\ FinalizeExternalString(string)

SpecExternal == InitExternal /\ [][NextExternal]_vars

-----------------------------------------------------------------------------
(* SpecStack: the two stack trace tests, instruction by instruction.       *)

\* TEST(CollectDetailedWasmStack_ExplicitThrowFromJs) under both numberings
\* of its functions, and TEST(CollectDetailedWasmStack_WasmError) for its
\* three values of pos_shift.
WasmTests ==
    { [test |-> "ExplicitThrowFromJs", pos_shift |-> 0, js_first |-> b] : b \in BOOLEAN }
    \cup { [test |-> "WasmError", pos_shift |-> p, js_first |-> FALSE] : p \in 0..2 }

InitStack ==
    /\ InitHeap
    /\ NoScripts
    /\ external_resources = <<>>
    /\ dispose_calls = <<>>
    /\ DEBUG \in BOOLEAN
    /\ FLAG_gc_interval = -1
    /\ allocation_timeout_ = 0
    /\ is_tracking_allocations = FALSE
    /\ is_tracking_object_moves = FALSE
    /\ FLAG_verify_predictable = FALSE
    /\ FLAG_dump_allocations_digest_at_alloc = 0
    /\ FLAG_trace_allocation_stack_interval = 0
    /\ FLAG_allocation_site_pretenuring = TRUE
    /\ wasm_test \in WasmTests
    /\ frames = <<>>
    /\ maybe_exc = NoException

NextStack ==
    \/ Execution_TryCall
    \/ Js_Call
    \/ Wrapper_Call
    \/ Wasm_Nop
    \/ Wasm_CallFunction
    \/ Wasm_Unreachable
    \/ Js_Throw
    \/ Execution_TryCall_Return

SpecStack == InitStack /\ [][NextStack]_vars

-----------------------------------------------------------------------------
(* Properties of the allocation dispatcher (SpecAlloc).                    *)

\* C2: a call of AllocateRaw that returns Success has fired OnAllocationEvent
\* exactly once, on the returned object with the requested size; a call that
\* returns Retry has not fired it.
C2_HookOncePerSuccess ==
    call.op = "AllocateRaw" =>
        /\ result.kind = "Success" =>
               allocation_events = <<[object |-> result.object, size |-> call.size]>>
        /\ result.kind = "Retry" => allocation_events = <<>>

\* C2 witness: a code request too big for a code page has succeeded on a
\* large page and the hook has fired once for it.
C2_Witness ==
    /\ call.op = "AllocateRaw"
    /\ call.space = CODE_SPACE
    /\ call.size > CodePageAreaSize
    /\ result.kind = "Success"
    /\ allocation_events = <<[object |-> result.object, size |-> call.size]>>

\* C3: a young-generation request above the large-object threshold never
\* touches the new space, and when it succeeds its object is the occupant
\* of a fresh non-executable large page.
C3_LargeYoungGoesToLargeObjectSpace ==
    [][(/\ call'.op = "AllocateRaw"
        /\ call'.space = NEW_SPACE
        /\ call'.size > kMaxRegularHeapObjectSize)
       => /\ new_space_' = new_space_
          /\ UNCHANGED <<old_space_, code_space_, map_space_>>
          /\ result'.kind = "Success" =>
                 /\ lo_space_' = Append(lo_space_,
                                        [address |-> Page_FromAddress(result'.object),
                                         size |-> call'.size, executable |-> FALSE])
                 /\ Page_owner(Page_FromAddress(result'.object)) = LO_SPACE
          /\ result'.kind # "Success" => lo_space_' = lo_space_]_vars

\* C3 witness: a large young-generation request has succeeded, on a
\* non-executable large page, with the new space still empty.
C3_Witness ==
    /\ call.op = "AllocateRaw"
    /\ call.space = NEW_SPACE
    /\ call.size > kMaxRegularHeapObjectSize
    /\ result.kind = "Success"
    /\ lo_space_ # <<>>
    /\ lo_space_[Len(lo_space_)].executable = FALSE
    /\ lo_space_[Len(lo_space_)].address = Page_FromAddress(result.object)
    /\ new_space_.top = Page_area_start(new_space_.to_space_.page)

\* The space a request is routed to, as the dispatcher's contract gives it.
ResolvedSpace(size_in_bytes, space) ==
    IF space \in {NEW_SPACE, OLD_SPACE}
    THEN IF size_in_bytes > kMaxRegularHeapObjectSize THEN LO_SPACE ELSE space
    ELSE IF space = CODE_SPACE
    THEN IF size_in_bytes <= CodePageAreaSize THEN CODE_SPACE ELSE LO_SPACE
    ELSE space

\* The (size, space) pairs the dispatcher accepts.
ValidRequest(size_in_bytes, space) ==
    /\ space \in {NEW_SPACE, OLD_SPACE, CODE_SPACE, MAP_SPACE, LO_SPACE}
    /\ space = LO_SPACE => size_in_bytes > kMaxRegularHeapObjectSize

\* An object of the given size lies within the area of a page owned by `space`.
InPageOwnedBy(object, size_in_bytes, space) ==
    LET page == Page_FromAddress(object)
    IN  IF space = LO_SPACE
        THEN \E i \in 1..Len(lo_space_) :
                 /\ lo_space_[i].address = page
                 /\ page + kObjectStartOffset <= object
                 /\ object + size_in_bytes
                        <= page + LargePageSpan(lo_space_[i].size) * kPageSize
        ELSE /\ page \in RegularPages
             /\ Page_owner(page) = space
             /\ space = NEW_SPACE => page = new_space_.to_space_.page
             /\ Page_Contains(page, object)
             /\ object + size_in_bytes <= Page_area_end(page)

\* The last call of AllocateRaw left by the DEBUG allocation timeout.
ReturnedByAllocationTimeout ==
    /\ DEBUG
    /\ FLAG_gc_interval >= 0
    /\ always_allocate_scope_count_ = 0
    /\ allocation_timeout_ < 0

\* C4 as claimed: for every valid request AllocateRaw returns Success inside
\* a page of the resolved space or Retry naming the resolved space, the
\* allocation-timeout return included.
C4_Original ==
    (/\ call.op = "AllocateRaw"
     /\ ValidRequest(call.size, call.space)
     /\ result.kind # "Fatal")
    => LET resolved == ResolvedSpace(call.size, call.space)
       IN  \/ /\ result.kind = "Success"
              /\ InPageOwnedBy(result.object, call.size, resolved)
           \/ result = AllocationResult_Retry(resolved)

\* C4 amended: for every valid request AllocateRaw returns Success inside a
\* page of the resolved space or Retry naming the resolved space, except
\* that the DEBUG allocation timeout returns Retry naming the requested space.
C4_ResolvedSpaceOrRequestedOnTimeout ==
    (/\ call.op = "AllocateRaw"
     /\ ValidRequest(call.size, call.space)
     /\ result.kind # "Fatal")
    => LET resolved == ResolvedSpace(call.size, call.space)
       IN  IF ReturnedByAllocationTimeout
           THEN result = AllocationResult_Retry(call.space)
           ELSE \/ /\ result.kind = "Success"
                   /\ InPageOwnedBy(result.object, call.size, resolved)
                \/ result = AllocationResult_Retry(resolved)

\* C4 witness: the allocation timeout has answered a large young-generation
\* request with Retry naming the new space.
C4_Witness ==
    /\ call.op = "AllocateRaw"
    /\ call.space = NEW_SPACE
    /\ call.size > kMaxRegularHeapObjectSize
    /\ ReturnedByAllocationTimeout
    /\ result = AllocationResult_Retry(NEW_SPACE)

\* C5 as claimed: a call of AllocateRaw made while a collection is in
\* progress, or while the scope forbids handle or heap allocation, ends the
\* process; it returns nothing and fires no hook.
C5_Original ==
    (call.op = "AllocateRaw" /\ ~AllocateRaw_Preconditions)
    => /\ result.kind = "Fatal"
       /\ aborted
       /\ allocation_events = <<>>

\* C5 amended: in a DEBUG build a call of AllocateRaw made while a collection
\* is in progress, or while the scope forbids handle or heap allocation, ends
\* the process: no space changes, no hook fires, nothing is returned.
C5_FatalInDebugBuild ==
    [][(/\ call'.op = "AllocateRaw"
        /\ DEBUG
        /\ \/ gc_state_ # "NOT_IN_GC"
           \/ ~AllowHandleAllocation
           \/ ~AllowHeapAllocation)
       => /\ aborted'
          /\ result'.kind = "Fatal"
          /\ allocation_events' = <<>>
          /\ UNCHANGED <<new_space_, old_space_, code_space_, map_space_, lo_space_>>]_vars

\* C5 witness: a DEBUG build has been stopped by an allocation attempted
\* during a collection.
C5_Witness ==
    /\ DEBUG
    /\ call.op = "AllocateRaw"
    /\ gc_state_ = "IN_GC"
    /\ aborted
    /\ result.kind = "Fatal"

-----------------------------------------------------------------------------
(* The write barrier.                                                      *)

\* An object of the young generation: a heap object on a page the new
\* space owns.
ResidesInYoungGeneration(object) ==
    /\ object.tag = "HeapObject"
    /\ Page_owner(Page_FromAddress(object.address)) = NEW_SPACE

\* C1: RecordWrite(container, slot, value) appends exactly the entry `slot`
\* to the store buffer if and only if the value resides in the young
\* generation, the container is a heap object and the container does not
\* reside in the young generation; in each of the seven other combinations
\* it leaves the store buffer unchanged.
C1_RecordWriteTruthTable ==
    [][call'.op = "RecordWrite" =>
          store_buffer' =
              IF /\ ResidesInYoungGeneration(call'.value)
                 /\ call'.object.tag = "HeapObject"
                 /\ ~ResidesInYoungGeneration(call'.object)
              THEN store_buffer \o <<call'.slot>>
              ELSE store_buffer]_vars

\* A store of a young value into an old container has been recorded.
C1_Witness ==
    /\ call.op = "RecordWrite"
    /\ call.object = OldObject
    /\ call.value = YoungObjectA
    /\ Len(store_buffer) >= 2
    /\ store_buffer[Len(store_buffer)] = call.slot

\* The indexes i of [offset, offset + length), ascending, whose element
\* resides in the young generation.
YoungElementIndexes(elements, offset, length) ==
    SelectSeq([k \in 1..length |-> offset + k - 1],
              LAMBDA i : ResidesInYoungGeneration(elements[i + 1]))

\* C6: RecordFixedArrayElements(array, offset, length) leaves the store
\* buffer unchanged when the array resides in the young generation;
\* otherwise it appends one entry for each index i in
\* [offset, offset + length) whose element resides in the young generation,
\* in ascending order of i and nothing else, the entry being the slot
\* address of element i.
C6_RecordFixedArrayElements ==
    [][call'.op = "RecordFixedArrayElements" =>
          LET young == YoungElementIndexes(call'.elements, call'.offset, call'.length)
          IN  store_buffer' =
                  IF ResidesInYoungGeneration(call'.array) THEN store_buffer
                  ELSE store_buffer \o
                       [k \in 1..Len(young) |->
                           call'.array.address + FixedArray_kHeaderSize
                               + young[k] * kPointerSize]]_vars

\* The whole of an old array of five elements, element 3 its only young
\* reference, has been recorded: the one new entry is the slot of element 3.
C6_Witness ==
    /\ call.op = "RecordFixedArrayElements"
    /\ call.array = OldObject
    /\ Len(call.elements) = 5
    /\ call.offset = 0
    /\ call.length = 5
    /\ Len(store_buffer) = 2
    /\ store_buffer[2] = OldObject.address + FixedArray_kHeaderSize + 3 * kPointerSize

\* A sub-range that starts past the first element has been recorded with
\* two young elements in it.
C6_WitnessOffset ==
    /\ call.op = "RecordFixedArrayElements"
    /\ call.array = OldObject
    /\ call.offset = 1
    /\ call.length = 2
    /\ Len(call.elements) = 3
    /\ store_buffer = <<OldObject.address + FixedArray_kHeaderSize + 2 * kPointerSize>>

-----------------------------------------------------------------------------
(* The memento lookup.                                                     *)

\* The candidate memento address of the last lookup: object address plus
\* object size.
CandidateAddress == call.object + call.map.instance_size

\* An address lies on the Page of the inspected object.
OnObjectPage(address) ==
    address \div kPageSize = call.object \div kPageSize

\* C7: FindMemento never reads a word outside the Page containing the
\* inspected object, in either mode: whenever the candidate memento address
\* or the word immediately following it lies on a different Page than the
\* object, FindMemento returns Invalid before reading the candidate's
\* descriptor word or its payload.
C7_ReadsStayOnObjectPage ==
    call.op = "FindAllocationMemento" =>
        /\ \A address \in memento_reads : OnObjectPage(address)
        /\ (~OnObjectPage(CandidateAddress) \/ ~OnObjectPage(CandidateAddress + kPointerSize))
               => (result.object = nullptr /\ memento_reads = {})

\* A runtime lookup met a candidate whose first word is the last word of
\* the object's page, the memento map in it and a live site behind it, and
\* returned Invalid without reading anything.
C7_Witness ==
    /\ call.op = "FindAllocationMemento"
    /\ call.mode = kForRuntime
    /\ OnObjectPage(CandidateAddress)
    /\ ~OnObjectPage(CandidateAddress + kPointerSize)
    /\ call.memory.map = "allocation_memento_map"
    /\ call.memory.allocation_site = LiveAllocationSite
    /\ result.object = nullptr
    /\ memento_reads = {}

\* The page of the inspected object is flagged "below age mark".
ObjectPageBelowAgeMark ==
    "NEW_SPACE_BELOW_AGE_MARK" \in page_flags[(call.object \div kPageSize) * kPageSize]

\* The age mark of the semispace the inspected object's page belongs to.
ObjectAgeMark ==
    IF "IN_TO_SPACE" \in page_flags[(call.object \div kPageSize) * kPageSize]
    THEN new_space_.to_space_.age_mark_
    ELSE new_space_.from_space_.age_mark_

\* The candidate of the last lookup passes the page-geometry check, the
\* descriptor check and the age-mark check: the age mark, if the page is
\* below it, lies in the object area of the page and not above the object.
PassesPriorChecks ==
    /\ OnObjectPage(CandidateAddress)
    /\ OnObjectPage(CandidateAddress + kPointerSize)
    /\ call.memory.map = "allocation_memento_map"
    /\ ObjectPageBelowAgeMark =>
           /\ OnObjectPage(ObjectAgeMark)
           /\ ObjectAgeMark >= (call.object \div kPageSize) * kPageSize + kObjectStartOffset
           /\ ObjectAgeMark <= call.object

\* C8: for a candidate that passes the page-geometry, descriptor and
\* age-mark checks, a ForRuntime lookup returns Invalid whenever the
\* candidate address equals the allocation top of the young generation, and
\* otherwise returns Valid only if the memento payload re-validates; a
\* ForGC lookup returns Valid for the identical heap state unconditionally,
\* without consulting the allocation top or the payload.
C8_ModeDistinction ==
    (call.op = "FindAllocationMemento" /\ ~aborted /\ PassesPriorChecks) =>
        /\ call.mode = kForRuntime =>
               /\ CandidateAddress = new_space_.top => result.object = nullptr
               /\ result.object # nullptr =>
                      /\ result.object = CandidateAddress
                      /\ call.memory.allocation_site = LiveAllocationSite
               /\ FindAllocationMemento_OnHeap(kForGC, call.map, call.object,
                                               call.memory).memento = CandidateAddress
        /\ call.mode = kForGC =>
               /\ result.object = CandidateAddress
               /\ memento_reads = {CandidateAddress}
               /\ \A top \in SnapshotTops("IN_TO_SPACE"), memory \in MementoWords :
                      memory.map = call.memory.map =>
                          FindAllocationMemento_Result(
                              kForGC, call.map, call.object, memory, ObjectPageBelowAgeMark,
                              ObjectAgeMark, top).memento = result.object

\* A runtime lookup met a candidate at the allocation top that passes the
\* earlier checks and carries a live site, and returned Invalid.
C8_Witness ==
    /\ call.op = "FindAllocationMemento"
    /\ call.mode = kForRuntime
    /\ PassesPriorChecks
    /\ CandidateAddress = new_space_.top
    /\ call.memory.allocation_site = LiveAllocationSite
    /\ result.object = nullptr
    /\ ~aborted

\* C9: when the inspected object's Page is flagged "below age mark", the
\* lookup (in both modes) returns Invalid unless the age mark of the
\* generation lies on that same Page and is less than or equal to the
\* object's address; when the flag is not set the age mark has no influence
\* on the result.
C9_BelowAgeMark ==
    (call.op = "FindAllocationMemento" /\ ~aborted) =>
        /\ (ObjectPageBelowAgeMark /\ ~(OnObjectPage(ObjectAgeMark) /\ ObjectAgeMark <= call.object))
               => result.object = nullptr
        /\ ~ObjectPageBelowAgeMark =>
               \A age_mark \in AgeMarks :
                   FindAllocationMemento_Result(
                       call.mode, call.map, call.object, call.memory, FALSE, age_mark,
                       new_space_.top).memento = result.object

\* A collector lookup on a flagged page met a memento behind an object that
\* lies below the age mark of its own page, and returned Invalid.
C9_Witness ==
    /\ call.op = "FindAllocationMemento"
    /\ call.mode = kForGC
    /\ OnObjectPage(CandidateAddress + kPointerSize)
    /\ call.memory.map = "allocation_memento_map"
    /\ ObjectPageBelowAgeMark
    /\ OnObjectPage(ObjectAgeMark)
    /\ call.object < ObjectAgeMark
    /\ result.object = nullptr

-----------------------------------------------------------------------------
(* The pretenuring feedback.                                               *)

\* A feedback map with the count of `site` raised by one and every other
\* entry as it was.
WithOneMore(feedback, site) ==
    [s \in DOMAIN feedback \cup {site} |->
        IF s = site
        THEN (IF s \in DOMAIN feedback THEN feedback[s] ELSE 0) + 1
        ELSE feedback[s]]

\* The collector-mode lookup of the call about to return finds a memento.
FindMementoForGCIsValid ==
    FindAllocationMemento_OnHeap(kForGC, call'.map, call'.object, call'.memory).memento
        # nullptr

\* C10 as stated: UpdateAllocationSite is a no-op unless the instance kind
\* is tracked; otherwise a Valid collector-mode lookup raises
\* feedbackMap[memento.site] by exactly one and nothing else changes; the
\* global map is unchanged.
C10_Original ==
    [][(call'.op = "UpdateAllocationSite" /\ call'.pretenuring_feedback = "local") =>
          /\ global_pretenuring_feedback_' = global_pretenuring_feedback_
          /\ local_pretenuring_feedback' =
                 IF /\ call'.map.instance_type \in TrackedInstanceTypes
                    /\ FindMementoForGCIsValid
                 THEN WithOneMore(local_pretenuring_feedback, call'.memory.allocation_site)
                 ELSE local_pretenuring_feedback]_vars

\* C10: UpdateAllocationSite(descriptor, object, feedbackMap), called with
\* a map that is not the global map, is a no-op unless pretenuring is
\* enabled and the instance kind is tracked; otherwise a Valid
\* collector-mode lookup raises feedbackMap[memento.site] by exactly one
\* and changes no other entry, and an Invalid one changes nothing; the
\* global map is unchanged in every case.
C10_NoOpUnlessEnabledAndTracked ==
    [][(call'.op = "UpdateAllocationSite" /\ call'.pretenuring_feedback = "local") =>
          /\ global_pretenuring_feedback_' = global_pretenuring_feedback_
          /\ local_pretenuring_feedback' =
                 IF /\ FLAG_allocation_site_pretenuring
                    /\ call'.map.instance_type \in TrackedInstanceTypes
                    /\ FindMementoForGCIsValid
                 THEN WithOneMore(local_pretenuring_feedback, call'.memory.allocation_site)
                 ELSE local_pretenuring_feedback]_vars

\* A task has counted a memento of the live site into a map that already
\* held a count for another site.
C10_Witness ==
    /\ call.op = "UpdateAllocationSite"
    /\ call.pretenuring_feedback = "local"
    /\ call.memory.allocation_site = LiveAllocationSite
    /\ DOMAIN local_pretenuring_feedback = {LiveAllocationSite, ZombieAllocationSite}
    /\ local_pretenuring_feedback[LiveAllocationSite] = 1
    /\ (call.object + call.map.instance_size + kPointerSize) \in memento_reads

-----------------------------------------------------------------------------
(* Exhaustion of the young generation.                                     *)

\* The request of the call about to return is a small young-generation
\* request that does not fit between top and limit of the new space.
SmallYoungRequestDoesNotFit ==
    /\ call'.op = "AllocateRaw"
    /\ call'.space = NEW_SPACE
    /\ call'.size <= kMaxRegularHeapObjectSize
    /\ new_space_.limit - new_space_.top < call'.size

\* C11: a small young-generation request that does not fit between top and
\* limit of the young space returns Retry(NEW_SPACE) after a single
\* attempt: AllocateRaw does not invoke the collector, does not advance
\* top, allocates nowhere else and fires no hook.  After a collection has
\* reset the page, a small young-generation request returns Success at the
\* start of the page.
C11_RetryThenSuccessAfterCollection ==
    /\ [][(SmallYoungRequestDoesNotFit /\ result' # Fatal) =>
              /\ result' = AllocationResult_Retry(NEW_SPACE)
              /\ new_space_' = new_space_
              /\ gc_state_' = gc_state_
              /\ UNCHANGED <<old_space_, code_space_, map_space_, lo_space_, page_flags>>
              /\ allocation_events' = <<>>]_vars
    /\ [][(/\ call.op = "GarbageCollectionEpilogue"
            /\ call'.op = "AllocateRaw"
            /\ call'.space = NEW_SPACE
            /\ call'.size <= kMaxRegularHeapObjectSize) =>
              /\ result' = AllocationResult_Success(
                                Page_area_start(new_space_.to_space_.page))
              /\ new_space_'.top = Page_area_start(new_space_.to_space_.page) + call'.size]_vars

\* A request of 24 bytes has met a page with 16 bytes remaining and has
\* returned Retry(NEW_SPACE).
C11_Witness ==
    /\ call.op = "AllocateRaw"
    /\ call.space = NEW_SPACE
    /\ call.size = 3 * kPointerSize
    /\ new_space_.limit - new_space_.top = 2 * kPointerSize
    /\ result = AllocationResult_Retry(NEW_SPACE)
    /\ allocation_timeout_ > 0 \/ ~DEBUG

-----------------------------------------------------------------------------
(* Requests the dispatcher must not serve.                                 *)

\* The call about to return names a space that is none of the five.
NamesNoSpace ==
    call'.space \notin {NEW_SPACE, OLD_SPACE, CODE_SPACE, MAP_SPACE, LO_SPACE}

\* The call about to return asks the large-object space directly for an
\* object that is not large.
SmallDirectLargeObjectRequest ==
    call'.space = LO_SPACE /\ call'.size <= kMaxRegularHeapObjectSize

\* The DEBUG allocation timeout has run out before the call about to return.
AllocationTimeoutRanOut ==
    /\ DEBUG
    /\ FLAG_gc_interval >= 0
    /\ always_allocate_scope_count_ = 0
    /\ allocation_timeout_ <= 0

\* C12 as claimed: a direct large-object request with a size at or below
\* the threshold, and a request naming none of the five spaces, ends the
\* process and allocates in no space.
C12_Original ==
    [][(call'.op = "AllocateRaw" /\ (NamesNoSpace \/ SmallDirectLargeObjectRequest)) =>
          /\ aborted'
          /\ result' = Fatal
          /\ UNCHANGED <<new_space_, old_space_, code_space_, map_space_, lo_space_>>]_vars

\* C12 amended: a request naming none of the five spaces ends the process
\* in every build, and a direct large-object request with a size at or
\* below the threshold ends it in a DEBUG build, unless the DEBUG allocation
\* timeout returns Retry naming the requested space first; either way no
\* space changes and no hook fires.  In a release build the small direct
\* large-object request is served by the large-object space, not
\* executable.
C12_FatalUnlessReleaseOrTimeout ==
    [][call'.op = "AllocateRaw" =>
          /\ (NamesNoSpace \/ (DEBUG /\ SmallDirectLargeObjectRequest)) =>
                 /\ UNCHANGED <<new_space_, old_space_, code_space_, map_space_, lo_space_>>
                 /\ allocation_events' = <<>>
                 /\ IF AllocationTimeoutRanOut
                    THEN result' \in {Fatal, AllocationResult_Retry(call'.space)}
                    ELSE aborted' /\ result' = Fatal
          /\ (~DEBUG /\ SmallDirectLargeObjectRequest) =>
                 /\ UNCHANGED <<new_space_, old_space_, code_space_, map_space_>>
                 /\ \/ /\ result' = AllocationResult_Retry(LO_SPACE)
                       /\ lo_space_' = lo_space_
                    \/ /\ result'.kind = "Success"
                       /\ Len(lo_space_') = Len(lo_space_) + 1
                       /\ ~lo_space_'[Len(lo_space_')].executable
                       /\ lo_space_'[Len(lo_space_')].size = call'.size]_vars

\* A DEBUG build that was free to allocate has been stopped by a direct
\* large-object request for 24 bytes.
C12_Witness ==
    /\ DEBUG
    /\ call.op = "AllocateRaw"
    /\ call.space = LO_SPACE
    /\ call.size = 3 * kPointerSize
    /\ gc_state_ = "NOT_IN_GC"
    /\ AllowHeapAllocation
    /\ AllowHandleAllocation
    /\ aborted
    /\ result = Fatal
    /\ lo_space_ = <<>>

-----------------------------------------------------------------------------
(* Routing of old-generation requests.                                     *)

\* The space the routing table sends the call about to return to.
RoutedSpace ==
    IF call'.space = OLD_SPACE
    THEN (IF call'.size > kMaxRegularHeapObjectSize THEN LO_SPACE ELSE OLD_SPACE)
    ELSE IF call'.space = CODE_SPACE
    THEN (IF call'.size <= CodePageAreaSize THEN CODE_SPACE ELSE LO_SPACE)
    ELSE MAP_SPACE

\* The allocation state of a space, by its name.
SpaceState(space) ==
    IF space = OLD_SPACE THEN old_space_
    ELSE IF space = CODE_SPACE THEN code_space_
    ELSE IF space = MAP_SPACE THEN map_space_
    ELSE lo_space_

\* The allocation state of a space after the step, by its name.
SpaceStateAfter(space) ==
    IF space = OLD_SPACE THEN old_space_'
    ELSE IF space = CODE_SPACE THEN code_space_'
    ELSE IF space = MAP_SPACE THEN map_space_'
    ELSE lo_space_'

\* C13: a request naming OLD_SPACE goes to the large-object space, not
\* executable, if its size is above the large-object threshold, and to the
\* old space otherwise; a request naming CODE_SPACE goes to the code space
\* if its size is at most the area of a code page, and to the large-object
\* space, executable, otherwise; a request naming MAP_SPACE always goes to
\* the map space.  Whatever the request, a large page is created
\* executable if and only if the request named CODE_SPACE.
C13_OldGenerationRouting ==
    [][call'.op = "AllocateRaw" =>
          /\ (/\ call'.space \in {OLD_SPACE, CODE_SPACE, MAP_SPACE}
              /\ result' # Fatal
              /\ ~AllocationTimeoutRanOut) =>
                 /\ new_space_' = new_space_
                 /\ \A space \in {OLD_SPACE, CODE_SPACE, MAP_SPACE, LO_SPACE} \ {RoutedSpace} :
                        SpaceStateAfter(space) = SpaceState(space)
                 /\ \/ /\ result' = AllocationResult_Retry(RoutedSpace)
                       /\ SpaceStateAfter(RoutedSpace) = SpaceState(RoutedSpace)
                    \/ /\ result'.kind = "Success"
                       /\ Page_owner(Page_FromAddress(result'.object)) = RoutedSpace
                       /\ SpaceStateAfter(RoutedSpace) # SpaceState(RoutedSpace)
          /\ Len(lo_space_') > Len(lo_space_) =>
                 (lo_space_'[Len(lo_space_')].executable <=> call'.space = CODE_SPACE)]_vars

\* A code request of 40 bytes, not large by the threshold but larger than
\* the area of a code page, has been given an executable large page.
C13_Witness ==
    /\ call.op = "AllocateRaw"
    /\ call.space = CODE_SPACE
    /\ call.size = 5 * kPointerSize
    /\ call.size <= kMaxRegularHeapObjectSize
    /\ result.kind = "Success"
    /\ Len(lo_space_) = 1
    /\ lo_space_[1].executable
    /\ result.object = lo_space_[1].address + kObjectStartOffset

-----------------------------------------------------------------------------
(* Deterministic-hash replay.                                              *)

\* The value folded for an object, from its page-relative offset and the id
\* of its space alone.
ReplayedObjectValue(hashed_object) ==
    BitOr(hashed_object.offset, hashed_object.space * (2 ^ kPageSizeBits))

\* The hash after one more event of the history.
ReplayedEvent(hash, event) ==
    LET folded1 == UpdateAllocationsHash(hash, ReplayedObjectValue(event.objects[1]))
        folded2 == IF Len(event.objects) = 2
                   THEN UpdateAllocationsHash(folded1, ReplayedObjectValue(event.objects[2]))
                   ELSE folded1
    IN  UpdateAllocationsHash(folded2, event.size)

\* The hash a run reaches from the initial hash over a history of events
\* that records, per object, only the offset in its page and the space id.
\* The hash before the last event is a uint32 in two halves.
RECURSIVE ReplayedHash(_)
ReplayedHash(events) ==
    IF events = <<>> THEN <<0, 0>>
    ELSE LET before == ReplayedHash(SubSeq(events, 1, Len(events) - 1))
         IN  IF before \in (0..(Half - 1)) \X (0..(Half - 1))
             THEN ReplayedEvent(before, events[Len(events)])
             ELSE before

\* C14: with deterministic-hash mode enabled, the rolling hash after every
\* event is a function of the sequence of events as given by their kinds,
\* their sizes and the (page-relative offset, space id) of their objects:
\* two runs of the same such sequence from the initial hash agree after
\* every event, whatever the base addresses of the pages.
C14_HashReplay ==
    FLAG_verify_predictable => raw_allocations_hash_ = ReplayedHash(hashed_events)

\* Three events have been hashed, among them an allocation and a move, the
\* last one an allocation on the second page of the new space, which has
\* the same history entry as the allocation on the first page.
C14_Witness ==
    /\ FLAG_verify_predictable
    /\ Len(hashed_events) = 3
    /\ hashed_events[1].event = "move"
    /\ hashed_events[2].event = "allocation"
    /\ call.op = "OnAllocationEvent"
    /\ call.object = Page_area_start(SemiSpacePageB)
    /\ HashedObject(call.object) = HashedObject(Page_area_start(SemiSpacePageA))
    /\ raw_allocations_hash_ # <<0, 0>>

-----------------------------------------------------------------------------
(* The profiler's share of the hooks.                                      *)

\* C17: OnAllocationEvent calls the profiler's AllocationEvent with the
\* object's address and the size exactly once if the profiler is tracking
\* allocations and makes no profiler call otherwise; OnMoveEvent calls
\* ObjectMoveEvent with the source address, the target address and the size
\* exactly once if the profiler is tracking object moves and makes no
\* profiler call otherwise.
C17_ProfilerAtMostOncePerEvent ==
    /\ call.op = "OnAllocationEvent" =>
           profiler_events =
               IF is_tracking_allocations
               THEN <<[event |-> "AllocationEvent", address |-> call.object,
                       size |-> call.size]>>
               ELSE <<>>
    /\ call.op = "OnMoveEvent" =>
           profiler_events =
               IF is_tracking_object_moves
               THEN <<[event |-> "ObjectMoveEvent", from |-> call.source,
                       to |-> call.target, size |-> call.size]>>
               ELSE <<>>

\* A move has been reported to a profiler that tracks object moves but not
\* allocations.
C17_Witness ==
    /\ call.op = "OnMoveEvent"
    /\ is_tracking_object_moves
    /\ ~is_tracking_allocations
    /\ Len(profiler_events) = 1
    /\ profiler_events[1].from = call.source
    /\ profiler_events[1].to = call.target

-----------------------------------------------------------------------------
(* External strings.                                                       *)

\* C15: over any sequence of FinalizeExternalString calls, a call that
\* finds a non-null resource pointer in the string calls Dispose on that
\* resource once and a call that finds a null pointer calls nothing and
\* changes nothing; after every call the string's pointer is null and no
\* other string is touched; and at all times each resource has been
\* disposed of exactly once if its string's pointer is null and not at all
\* if the pointer is still in place.
C15_FinalizeIdempotent ==
    /\ [](\A string \in ExternalStrings :
              \/ /\ external_resources[string.address] = ExternalResourceOf(string)
                 /\ dispose_calls[ExternalResourceOf(string)] = 0
              \/ /\ external_resources[string.address] = nullptr
                 /\ dispose_calls[ExternalResourceOf(string)] = 1)
    /\ [][call'.op = "FinalizeExternalString" =>
              /\ external_resources'[call'.string.address] = nullptr
              /\ \A string \in ExternalStrings \ {call'.string} :
                     external_resources'[string.address] = external_resources[string.address]
              /\ IF external_resources[call'.string.address] # nullptr
                 THEN /\ disposed_resources' = <<external_resources[call'.string.address]>>
                      /\ dispose_calls' =
                             [dispose_calls EXCEPT
                                 ![external_resources[call'.string.address]] = @ + 1]
                 ELSE /\ disposed_resources' = <<>>
                      /\ UNCHANGED <<external_resources, dispose_calls>>
              /\ UNCHANGED <<new_space_strings_, old_space_strings_>>]_vars

\* A call on a string that was finalized before: nothing is disposed of by
\* the call and the resource has been disposed of once.
C15_Witness ==
    /\ call.op = "FinalizeExternalString"
    /\ disposed_resources = <<>>
    /\ external_resources[call.string.address] = nullptr
    /\ dispose_calls[ExternalResourceOf(call.string)] = 1

\* C16: ExternalStringTable::AddString appends the string to
\* new_space_strings_ if the string is in the new space at the time of the
\* call and to old_space_strings_ otherwise; the other list is unchanged,
\* and the entries the list had stay where they were.
C16_AddStringAppendsToOneList ==
    [][call'.op = "RegisterExternalString" =>
          IF Heap_InNewSpace(call'.string)
          THEN /\ new_space_strings_' = Append(new_space_strings_, call'.string)
               /\ old_space_strings_' = old_space_strings_
          ELSE /\ old_space_strings_' = Append(old_space_strings_, call'.string)
               /\ new_space_strings_' = new_space_strings_]_vars

\* Both lists hold entries, the young one a string of the from-space added
\* during a collection after a string of the to-space, and the last call
\* added to the old list.
C16_Witness ==
    /\ call.op = "RegisterExternalString"
    /\ call.string = ExternalStringOld
    /\ new_space_strings_ = <<ExternalStringA, ExternalStringB>>
    /\ old_space_strings_ = <<ExternalStringOld>>

-----------------------------------------------------------------------------
(* The hash and the digest under move events.                              *)

\* C19: with FLAG_verify_predictable set, OnMoveEvent folds the source,
\* then the target, then the size into the hash, and the hash afterwards is
\* that fold of the hash before, whether or not the profiler tracks object
\* moves and whether or not the target is a SharedFunctionInfo; with the
\* flag clear OnMoveEvent leaves the hash and the allocation counter as
\* they were.
C19_MoveFoldsSourceTargetSize ==
    [][call'.op = "OnMoveEvent" =>
          IF FLAG_verify_predictable
          THEN raw_allocations_hash_' =
                   UpdateAllocationsHash(
                       UpdateAllocationsHashObject(
                           UpdateAllocationsHashObject(raw_allocations_hash_,
                                                       call'.source),
                           call'.target),
                       call'.size)
          ELSE /\ raw_allocations_hash_' = raw_allocations_hash_
               /\ allocations_count_' = allocations_count_]_vars

\* A SharedFunctionInfo has been moved while the profiler tracks moves and
\* the hash is kept: the profiler and the logger were told, and the hash
\* has changed.
C19_Witness ==
    /\ call.op = "OnMoveEvent"
    /\ FLAG_verify_predictable
    /\ is_tracking_object_moves
    /\ call.is_shared_function_info
    /\ Len(profiler_events) = 1
    /\ Len(code_events) = 1
    /\ Len(hashed_events) = 1
    /\ raw_allocations_hash_ # <<0, 0>>

\* The allocation events among the events hashed so far.
RECURSIVE AllocationEventsIn(_)
AllocationEventsIn(events) ==
    IF events = <<>> THEN 0
    ELSE (IF events[Len(events)].event = "allocation" THEN 1 ELSE 0)
         + AllocationEventsIn(SubSeq(events, 1, Len(events) - 1))

\* C20 as stated: with FLAG_verify_predictable set and digest interval N,
\* over any interleaving of allocation and move events the k-th allocation
\* event prints a digest exactly when k is a multiple of N, and a move
\* event prints none.
C20_Original ==
    FLAG_verify_predictable =>
        /\ call.op = "OnAllocationEvent" =>
               (printed_digests # <<>> <=>
                    AllocationEventsIn(hashed_events)
                        % FLAG_dump_allocations_digest_at_alloc = 0)
        /\ call.op = "OnMoveEvent" => printed_digests = <<>>

\* C20: with FLAG_verify_predictable set and digest interval N > 0,
\* allocation events and move events advance the same counter, and the
\* k-th event of either kind prints one digest, of the counter k and the
\* hash after the event, exactly when k is a multiple of N; with the flag
\* clear no event prints a digest.
C20_DigestEveryNthEvent ==
    call.op \in {"OnAllocationEvent", "OnMoveEvent"} =>
        IF FLAG_verify_predictable
        THEN /\ allocations_count_ = Len(hashed_events)
             /\ printed_digests =
                    IF Len(hashed_events) % FLAG_dump_allocations_digest_at_alloc = 0
                    THEN <<PrintAllocationsHash(Len(hashed_events), raw_allocations_hash_)>>
                    ELSE <<>>
        ELSE printed_digests = <<>>

\* With N = 2 the first allocation event, coming after one move event,
\* has printed a digest.
C20_Witness ==
    /\ FLAG_verify_predictable
    /\ FLAG_dump_allocations_digest_at_alloc = 2
    /\ call.op = "OnAllocationEvent"
    /\ Len(hashed_events) = 2
    /\ hashed_events[1].event = "move"
    /\ AllocationEventsIn(hashed_events) = 1
    /\ Len(printed_digests) = 1
    /\ printed_digests[1].allocations = 2

-----------------------------------------------------------------------------
(* The stack trace of an exception that crosses JS and wasm frames.        *)

-----------------------------------------------------------------------------
(* The store buffer under the write barrier.                               *)

\* C21: a call of RecordWrite or RecordFixedArrayElements leaves the store
\* buffer it found as a prefix of the store buffer it leaves, so that over
\* any sequence of such calls no entry is removed, overwritten or moved;
\* and every entry a call appends is the slot of a store whose value was in
\* the new space and whose container was a heap object outside the new
\* space when the call was made.
C21_StoreBufferAppendOnly ==
    [][call'.op \in {"RecordWrite", "RecordFixedArrayElements"} =>
          /\ Len(store_buffer') >= Len(store_buffer)
          /\ SubSeq(store_buffer', 1, Len(store_buffer)) = store_buffer
          /\ \A n \in (Len(store_buffer) + 1)..Len(store_buffer') :
                 IF call'.op = "RecordWrite"
                 THEN /\ store_buffer'[n] = call'.slot
                      /\ Len(store_buffer') = Len(store_buffer) + 1
                      /\ Heap_InNewSpace(call'.value)
                      /\ IsHeapObject(call'.object)
                      /\ ~Heap_InNewSpace(call'.object)
                 ELSE /\ IsHeapObject(call'.array)
                      /\ ~Heap_InNewSpace(call'.array)
                      /\ \E k \in call'.offset..(call'.offset + call'.length - 1) :
                             /\ store_buffer'[n] = FixedArray_RawFieldOfElementAt(call'.array, k)
                             /\ Heap_InNewSpace(call'.elements[k + 1])]_vars

\* The buffer holds the slot of an earlier RecordWrite and, behind it, the
\* slot RecordFixedArrayElements has just appended for element 3.
C21_Witness ==
    /\ call.op = "RecordFixedArrayElements"
    /\ call.array = OldObject
    /\ call.offset = 3
    /\ Len(store_buffer) = 2
    /\ store_buffer[1] = OldObject.address + 3 * kPointerSize
    /\ store_buffer[2] = FixedArray_RawFieldOfElementAt(OldObject, 3)
    /\ store_buffer[1] # store_buffer[2]

-----------------------------------------------------------------------------
(* The allocation counter and the stack sampling.                          *)

\* C22: allocations_count_ never decreases; OnAllocationEvent increments
\* it by exactly one when FLAG_verify_predictable is set or
\* FLAG_trace_allocation_stack_interval is above 0, also when both are, and
\* leaves it alone when neither is; and it prints a stack trace exactly
\* when the interval is above 0 and the counter after the increment is a
\* multiple of it.
C22_CounterOncePerAllocation ==
    /\ [][allocations_count_' >= allocations_count_]_vars
    /\ [][call'.op = "OnAllocationEvent" =>
              /\ allocations_count_' =
                     IF FLAG_verify_predictable THEN allocations_count_ + 1
                     ELSE IF FLAG_trace_allocation_stack_interval > 0
                          THEN allocations_count_ + 1
                          ELSE allocations_count_
              /\ printed_stacks' =
                     IF FLAG_trace_allocation_stack_interval > 0
                     THEN (IF allocations_count_' % FLAG_trace_allocation_stack_interval = 0
                           THEN 1 ELSE 0)
                     ELSE 0]_vars

\* With the hash and the sampling both on, the second allocation event has
\* taken the counter to 2 and printed a stack trace.
C22_Witness ==
    /\ call.op = "OnAllocationEvent"
    /\ FLAG_verify_predictable
    /\ FLAG_trace_allocation_stack_interval = 2
    /\ Len(hashed_events) = 2
    /\ allocations_count_ = 2
    /\ printed_stacks = 1

-----------------------------------------------------------------------------
(* The promotion test against the age-mark test of the memento lookup.     *)

\* The lookup finds no memento behind the object at `object_address`, in
\* either mode, whatever the object's map and whatever stands behind it.
NoMementoInAnyMode(object_address) ==
    \A mode \in {kForGC, kForRuntime}, map \in {JSArrayMap, JSObjectMap},
       memory \in MementoWords :
        FindAllocationMemento_OnHeap(mode, map, object_address, memory).memento = nullptr

\* C23 as stated: for every address of the new space, every state of the
\* page flags and every position of the age mark, if ShouldBePromoted
\* returns true for the address then FindAllocationMemento returns null
\* for the object at that address in both modes.
C23_Original ==
    [][(call'.op = "ShouldBePromoted" /\ result' = BoolResult(TRUE)) =>
          NoMementoInAnyMode(call'.old_address)]_vars

\* C23: if ShouldBePromoted returns true for an address and the age mark
\* it read, new_space_->age_mark(), is the age mark of the semispace that
\* owns the address's page, then FindAllocationMemento returns null for the
\* object at that address in both modes, also with the age mark at the end
\* of the page's area; and an object for which a memento is returned is one
\* for which ShouldBePromoted, reading that semispace's age mark, is false.
C23_PromotionAgreesOnSameAgeMark ==
    [][/\ (/\ call'.op = "ShouldBePromoted"
           /\ result' = BoolResult(TRUE)
           /\ call'.age_mark = Page_age_mark(Page_FromAddress(call'.old_address))) =>
              NoMementoInAnyMode(call'.old_address)
       /\ (/\ call'.op = "FindAllocationMemento"
           /\ result'.kind = "Memento"
           /\ result'.object # nullptr) =>
              ~Heap_ShouldBePromoted(call'.object,
                                     Page_age_mark(Page_FromAddress(call'.object)))]_vars

\* ShouldBePromoted has returned true for an object of the from-space whose
\* page holds the age mark at the very end of its area: ContainsLimit
\* holds of that mark and Contains does not.
C23_Witness ==
    /\ call.op = "ShouldBePromoted"
    /\ result = BoolResult(TRUE)
    /\ gc_state_ = "IN_GC"
    /\ Page_FromAddress(call.old_address) = SemiSpacePageA
    /\ call.age_mark = Page_area_end(SemiSpacePageA)
    /\ call.age_mark = Page_age_mark(SemiSpacePageA)
    /\ Page_ContainsLimit(SemiSpacePageA, call.age_mark)
    /\ ~Page_Contains(SemiSpacePageA, call.age_mark)

-----------------------------------------------------------------------------
(* The ids NextScriptId hands out.                                         *)

\* C25: starting from a stored id in [0, Smi::kMaxValue], every call of
\* NextScriptId returns an id in [1, Smi::kMaxValue] that is the id stored
\* as the new last script id; the id returned is the id stored before plus
\* one, except that after Smi::kMaxValue it is 1.
C25_NextScriptIdStaysInSmiRange ==
    [][call'.op = "NextScriptId" =>
          /\ Smi_value(last_script_id) \in 0..Smi_kMaxValue
          /\ result'.kind = "int"
          /\ result'.value \in 1..Smi_kMaxValue
          /\ last_script_id' = Smi(result'.value)
          /\ Smi_value(last_script_id') = result'.value
          /\ IF Smi_value(last_script_id) = Smi_kMaxValue THEN result'.value = 1
             ELSE result'.value = Smi_value(last_script_id) + 1]_vars

\* NextScriptId has been called with Smi::kMaxValue stored and has
\* returned 1.
C25_Witness ==
    /\ call.op = "NextScriptId"
    /\ call.last_id = Smi_kMaxValue
    /\ result = IntResult(1)
    /\ last_script_id = Smi(1)

=============================================================================
